---- MODULE Spec2Model ----
(***************************************************************************)
(* AsyncCppRpc connection engine (crpc::details::connection): the reader   *)
(* and writer tasks, the request handlers, the client stubs (do_call,      *)
(* do_void_call), the pending-call table, the error hook and start/stop;  *)
(* the serializer (Writer, Reader) and the method ids and dispatch table   *)
(* of the marshallers.                                                     *)
(*                                                                         *)
(* The corsl runtime is an external library; the model uses these of its   *)
(* documented behaviours:                                                  *)
(*   - cancellation_token{ co_await source } throws operation_cancelled    *)
(*     when the source is already cancelled;                               *)
(*   - operation_cancelled is an hresult_error (ERROR_CANCELLED);          *)
(*   - async_queue::cancel() makes next() fail from then on, push() still  *)
(*     appends; awaiting a future is not interrupted by cancellation.      *)
(***************************************************************************)
EXTENDS Integers, Sequences, FiniteSets, TLC

(* ------------------------------ bounds -------------------------------- *)

\* number of client threads, each issuing at most one stub call
MaxCalls == 2
\* number of messages the peer delivers to transport.read
MaxReads == 2
\* number of threads calling stop (each calls it once)
MaxStoppers == 2
\* number of times the user installs an error handler
MaxInstalls == 2
\* longest string / collection the codec is exercised with
MaxLen == 2
\* largest number of methods an interface declares
MaxMethods == 3

Calls == 1..MaxCalls
Reads == 1..MaxReads
Stoppers == 1..MaxStoppers

(* ------------------------- program constants -------------------------- *)

\* width of message_header::call_id is 30 bits: ids are reduced modulo 2^30
CallIdModulus == 1073741824

E_NOTIMPL == -2147467263
E_ABORT == -2147467260
E_FAIL == -2147467259
E_INVALIDARG == -2147024809
\* HRESULT_FROM_WIN32(ERROR_CANCELLED), the code of corsl::operation_cancelled
E_CANCELLED == -2147023673
\* HRESULT_FROM_WIN32(WSAECONNRESET), what the TCP transport reports on disconnect
E_CONNRESET == -2147014842
S_OK == 0

\* method ids of the interface: an async-returning method, a fire-and-forget
\* method, and an id the server's table does not hold
mAsync == 11
mVoid == 12
mUnknown == 13

None == [kind |-> "none"]

(* ------------------------- HRESULT <-> bytes -------------------------- *)

\* memcpy(payload.data(), &hr, sizeof(HRESULT)): the four little-endian
\* bytes of the two's complement 32-bit value
RECURSIVE LEBytes(_, _)
LEBytes(v, n) ==
    IF n = 0 THEN << >> ELSE << v % 256 >> \o LEBytes(v \div 256, n - 1)

HresultBytes(hr) == LEBytes(hr, 4)

\* Reader{payload} >> code: reads a 32-bit signed integer, little-endian
ReadHresult(p) ==
    p[1] + 256 * p[2] + 65536 * p[3]
      + 16777216 * (IF p[4] >= 128 THEN p[4] - 256 ELSE p[4])

(* ------------------------------ messages ------------------------------ *)

Msg(cid, t, m, p) == [call_id |-> cid % CallIdModulus, type |-> t, id |-> m, payload |-> p]

\* call ids the peer uses
PeerIds == { 0, 1 }
\* payload of an encoded result / of encoded arguments
ResultPayload == << 59 >>
ArgsPayload == << 17 >>

\* replies the peer sends: a result, an error code, an error reply whose
\* payload has not the size of an error code
ReplyMessages ==
    { Msg(i, "response", mAsync, << 7 >>) : i \in PeerIds }
    \cup { Msg(i, "response_error", mAsync, p) : i \in PeerIds,
                                                 p \in { HresultBytes(E_NOTIMPL), << 7 >> } }
RequestMessages ==
    { Msg(i, t, m, ArgsPayload) : i \in PeerIds, t \in {"request", "void_request"},
                                  m \in {mAsync, mVoid, mUnknown} }
InboundMessages == ReplyMessages \cup RequestMessages

\* the marshaller configurations of connection<Transport, Traits...>
Configs ==
    { [server |-> TRUE,  client |-> TRUE,  only_void |-> FALSE],
      [server |-> FALSE, client |-> TRUE,  only_void |-> FALSE],
      [server |-> TRUE,  client |-> FALSE, only_void |-> FALSE],
      [server |-> FALSE, client |-> TRUE,  only_void |-> TRUE],
      [server |-> TRUE,  client |-> FALSE, only_void |-> TRUE] }

VARIABLES
    traits,          \* compile-time configuration: server/client marshallers
    running,         \* connection::running
    transport,       \* connection::transport holds a value
    cancelled,       \* connection::cancel has been cancelled
    stop_lock,       \* 0 or the thread holding connection::stop_lock
    spc,             \* position of each thread calling stop
    write_queue,     \* connection::write_queue contents
    queue_cancelled, \* write_queue.cancel() has been called
    wpc, wcur,       \* writer task position and the message being written
    wire,            \* history: messages handed to transport.write, in order
    writes_active,   \* history: transport.write calls not yet completed
    pushed,          \* history: every write_queue.push, in order, with its origin
    rpc,             \* reader task position
    nreads,          \* messages returned by transport.read so far
    message,         \* the reader's local `message`: the last one read
    outstanding,     \* reader's outstanding_requests counter
    finished,        \* reader's finished promise is set
    hpc, hmsg,       \* request handler per received message: position, message
    last_call_id,    \* connection::last_call_id
    completions,     \* connection::completions: call-id -> caller's promise
    cpc, ckind, cid, \* client thread: position, kind of call, allocated id
    cres, ncompl,    \* caller's observed result, number of completions of its slot
    error_handler,   \* connection::error_handler: 0 when empty, else the number
                     \* of the on_error(f) call that installed the handler it holds
    last_error,      \* connection::last_error
    hook_pending,    \* handler invocations posted to the background executor
    hook_calls,      \* history: invocations of the user's error handlers
    captured,        \* history: every error handed to error_on_background
    ninstalls,       \* number of on_error(f) calls so far
    codec,           \* a Writer / Reader pair at work on one value
    route,           \* a client interface, a server interface and one request
    exec,            \* the reader inside execute_request: the messages whose
                     \* handler has not handed control back to the reader yet,
                     \* and the history of the implementations' invocations
    tcp              \* a tcp_transport pair: messages written, bytes in flight,
                     \* the reading side's position and the messages it returned

vars == << traits, running, transport, cancelled, stop_lock, spc, write_queue,
           queue_cancelled, wpc, wcur, wire, writes_active, pushed, rpc, nreads, message,
           outstanding, finished, hpc, hmsg, last_call_id, completions, cpc,
           ckind, cid, cres, ncompl, error_handler, last_error, hook_pending,
           hook_calls, captured, ninstalls, codec, route, exec, tcp >>

connVars == << running, transport, cancelled, write_queue, queue_cancelled,
               last_call_id, completions, error_handler, last_error >>
writerVars == << wpc, wcur, wire, writes_active >>
readerVars == << rpc, nreads, message, outstanding, finished, hpc, hmsg >>
callVars == << cpc, ckind, cid, cres, ncompl >>
errVars == << error_handler, last_error, hook_pending, captured >>

\* values of last_call_id a connection is started with: 0 for a new
\* connection object; the counter is never reset, so an object that has
\* issued 2^30 - 1 calls and is started again begins one below 2^30
CounterStarts == { 0, CallIdModulus - 1 }

ReaderAlwaysRequired == FALSE

reader_not_required == ~traits.server /\ traits.only_void

WriterAlwaysRequired == FALSE

writer_not_required == ~traits.client /\ traits.only_void

Init ==
    /\ traits \in Configs
    /\ running = FALSE
    /\ transport = FALSE
    /\ cancelled = FALSE
    /\ stop_lock = 0
    /\ spc = [t \in Stoppers |-> "idle"]
    /\ write_queue = << >>
    /\ queue_cancelled = FALSE
    /\ wpc = "none" /\ wcur = None
    /\ wire = << >>
    /\ writes_active = 0
    /\ pushed = << >>
    /\ rpc = "none"
    /\ nreads = 0
    /\ message = None
    /\ outstanding = 0
    /\ finished = FALSE
    /\ hpc = [i \in Reads |-> "none"]
    /\ hmsg = [i \in Reads |-> None]
    /\ last_call_id \in CounterStarts
    /\ completions = << >>
    /\ cpc = [c \in Calls |-> "idle"]
    /\ ckind = [c \in Calls |-> "none"]
    /\ cid = [c \in Calls |-> 0]
    /\ cres = [c \in Calls |-> None]
    /\ ncompl = [c \in Calls |-> 0]
    /\ error_handler = 0
    /\ last_error = None
    /\ hook_pending = << >>
    /\ hook_calls = << >>
    /\ captured = << >>
    /\ ninstalls = 0
    /\ codec = [pc |-> "idle"]
    /\ route = [pc |-> "idle"]
    /\ exec = [cur |-> {}, log |-> << >>]
    /\ tcp = [pc |-> "idle"]

(* ------------------------------ helpers ------------------------------- *)

\* the error code a failing user implementation raises (E_ACCESSDENIED)
ImplError == -2147024891

Value(p) == [kind |-> "value", payload |-> p]
Error(hr) == [kind |-> "error", code |-> hr]
Cancelled == [kind |-> "cancelled"]
Returned == [kind |-> "returned"]
AssertFailed == [kind |-> "assert"]

\* the server's dispatch table (static_method_map): the ids it holds
MethodTable == IF traits.only_void THEN { mVoid } ELSE { mAsync, mVoid }
IsVoidMethod(m) == m = mVoid

\* cancel.cancel(): the writer's cancellation_subscription, alive while the
\* writer task runs, cancels the write queue; without the subscription the
\* queue stays as it is
QueueLeftAlone == queue_cancelled

QueueAfterCancel == queue_cancelled \/ wpc \in {"wait", "writing"}

\* write_queue.push of the messages in ms, by origin `by`
RECURSIVE Tagged(_, _)
Tagged(ms, by) ==
    IF ms = << >> THEN << >>
    ELSE << [msg |-> Head(ms), by |-> by] >> \o Tagged(Tail(ms), by)

Push(ms, by) ==
    /\ write_queue' = write_queue \o ms
    /\ pushed' = pushed \o Tagged(ms, by)

\* "last_error = { hr, on }" with no handler installed: what the record
\* holds afterwards; the first variant keeps an error already recorded
RecordedFirst(old, hr, on) == IF old = None THEN [hr |-> hr, state |-> on] ELSE old

Recorded(old, hr, on) == [hr |-> hr, state |-> on]

\* connection::error_on_background; in the first variant the handler stays
\* installed after it has been handed to the background executor
error_on_background_keep(hr, on) ==
    /\ captured' = Append(captured, [hr |-> hr, state |-> on])
    /\ IF error_handler # 0
       THEN /\ hook_pending' = Append(hook_pending, [hr |-> hr, state |-> on, f |-> error_handler])
            /\ UNCHANGED << error_handler, last_error >>
       ELSE /\ last_error' = Recorded(last_error, hr, on)
            /\ UNCHANGED << error_handler, hook_pending >>

error_on_background(hr, on) ==
    /\ captured' = Append(captured, [hr |-> hr, state |-> on])
    /\ IF error_handler # 0
       THEN /\ error_handler' = 0
            /\ hook_pending' = Append(hook_pending, [hr |-> hr, state |-> on, f |-> error_handler])
            /\ UNCHANGED last_error
       ELSE /\ last_error' = Recorded(last_error, hr, on)
            /\ UNCHANGED << error_handler, hook_pending >>

\* removal of key k from the pending-call table
NoErase(tbl, k) == tbl

Erase(tbl, k) == [x \in DOMAIN tbl \ {k} |-> tbl[x]]

\* completions.emplace(k, c): no effect when the key is already present
Emplace(tbl, k, c) == IF k \in DOMAIN tbl THEN tbl ELSE (k :> c) @@ tbl

(* --------------------------- start ------------------------------------ *)

\* connection::start; the model covers one start/stop cycle of a connection
start ==
    /\ ~transport /\ ~running /\ stop_lock = 0
    /\ rpc = "none"
    /\ transport' = TRUE
    /\ running' = TRUE
    /\ rpc' = IF reader_not_required THEN "done" ELSE "reading"
    /\ wpc' = IF writer_not_required THEN "done" ELSE "wait"
    /\ outstanding' = IF reader_not_required THEN 0 ELSE 1
    /\ UNCHANGED << traits, codec, route, exec, tcp, cancelled, stop_lock, spc, write_queue, queue_cancelled,
                    wcur, wire, writes_active, pushed, nreads, message, finished, hpc, hmsg,
                    last_call_id, completions, callVars, errVars, hook_calls, ninstalls >>

(* --------------------------- client stubs ----------------------------- *)

\* assert(transport) at the head of do_call / do_void_call, debug build
stub_assert(c) ==
    /\ cpc[c] = "idle" /\ traits.client
    /\ ~transport
    /\ cpc' = [cpc EXCEPT ![c] = "done"]
    /\ cres' = [cres EXCEPT ![c] = AssertFailed]
    /\ UNCHANGED << traits, codec, route, exec, tcp, connVars, stop_lock, spc, writerVars, pushed, readerVars,
                    ckind, cid, ncompl, hook_pending, captured, hook_calls, ninstalls >>

\* what the stubs' cancellation tests see: token{ co_await cancel } in
\* do_call, cancel.is_cancelled() in do_void_call
NeverCancelled == FALSE

is_cancelled == cancelled

\* the id do_call / do_void_call obtain from last_call_id.fetch_add(1); the
\* first variant reads the counter without advancing it
LoadCallId(c) ==
    /\ cid' = [cid EXCEPT ![c] = last_call_id]
    /\ UNCHANGED last_call_id

FetchAddCallId(c) ==
    /\ cid' = [cid EXCEPT ![c] = last_call_id]
    /\ last_call_id' = last_call_id + 1

\* do_call: token{ co_await cancel }, then last_call_id.fetch_add
do_call_begin(c) ==
    /\ cpc[c] = "idle" /\ traits.client /\ ~traits.only_void
    /\ ckind' = [ckind EXCEPT ![c] = "call"]
    /\ IF is_cancelled
       THEN /\ cpc' = [cpc EXCEPT ![c] = "done"]
            /\ cres' = [cres EXCEPT ![c] = Cancelled]
            /\ UNCHANGED << cid, last_call_id >>
       ELSE /\ cpc' = [cpc EXCEPT ![c] = "allocated"]
            /\ FetchAddCallId(c)
            /\ UNCHANGED cres
    /\ UNCHANGED << traits, codec, route, exec, tcp, running, transport, cancelled, stop_lock, spc, write_queue,
                    queue_cancelled, writerVars, pushed, readerVars, completions,
                    ncompl, errVars, hook_calls, ninstalls >>

\* do_call: completions.emplace(call_id, &promise) under completions_lock;
\* the first variant goes on to the push without inserting the entry
do_call_register_skipped(c) ==
    /\ cpc[c] = "allocated"
    /\ cpc' = [cpc EXCEPT ![c] = "registered"]
    /\ UNCHANGED << traits, codec, route, exec, tcp, running, transport, cancelled, stop_lock, spc, write_queue,
                    queue_cancelled, writerVars, pushed, readerVars, last_call_id, completions,
                    ckind, cid, cres, ncompl, errVars, hook_calls, ninstalls >>

do_call_register(c) ==
    /\ cpc[c] = "allocated"
    /\ completions' = Emplace(completions, cid[c], c)
    /\ cpc' = [cpc EXCEPT ![c] = "registered"]
    /\ UNCHANGED << traits, codec, route, exec, tcp, running, transport, cancelled, stop_lock, spc, write_queue,
                    queue_cancelled, writerVars, pushed, readerVars, last_call_id,
                    ckind, cid, cres, ncompl, errVars, hook_calls, ninstalls >>

\* do_call: write_queue.push(request), then co_await promise.get_future()
do_call_push(c) ==
    /\ cpc[c] = "registered"
    /\ Push(<< Msg(cid[c], "request", mAsync, ArgsPayload) >>, << "call", c, cid[c], "stub" >>)
    /\ cpc' = [cpc EXCEPT ![c] = IF cres[c] = None THEN "awaiting" ELSE "done"]
    /\ UNCHANGED << traits, codec, route, exec, tcp, running, transport, cancelled, stop_lock, spc,
                    queue_cancelled, writerVars, readerVars, last_call_id, completions,
                    ckind, cid, cres, ncompl, errVars, hook_calls, ninstalls >>

\* do_void_call: the cancel.is_cancelled() test, then last_call_id.fetch_add
do_void_call_begin(c) ==
    /\ cpc[c] = "idle" /\ traits.client
    /\ ckind' = [ckind EXCEPT ![c] = "void"]
    /\ IF is_cancelled
       THEN /\ cpc' = [cpc EXCEPT ![c] = "done"]
            /\ cres' = [cres EXCEPT ![c] = Cancelled]
            /\ UNCHANGED << cid, last_call_id >>
       ELSE /\ cpc' = [cpc EXCEPT ![c] = "vallocated"]
            /\ FetchAddCallId(c)
            /\ UNCHANGED cres
    /\ UNCHANGED << traits, codec, route, exec, tcp, running, transport, cancelled, stop_lock, spc, write_queue,
                    queue_cancelled, writerVars, pushed, readerVars, completions,
                    ncompl, errVars, hook_calls, ninstalls >>

\* do_void_call: write_queue.push(void_request) and return; the first
\* variant registers the call and awaits a reply, as do_call does
do_void_call_push_awaits(c) ==
    /\ cpc[c] = "vallocated"
    /\ Push(<< Msg(cid[c], "void_request", mVoid, ArgsPayload) >>, << "call", c, cid[c], "stub" >>)
    /\ completions' = Emplace(completions, cid[c], c)
    /\ cpc' = [cpc EXCEPT ![c] = "awaiting"]
    /\ UNCHANGED << traits, codec, route, exec, tcp, running, transport, cancelled, stop_lock, spc,
                    queue_cancelled, writerVars, readerVars, last_call_id,
                    ckind, cid, cres, ncompl, errVars, hook_calls, ninstalls >>

do_void_call_push(c) ==
    /\ cpc[c] = "vallocated"
    /\ Push(<< Msg(cid[c], "void_request", mVoid, ArgsPayload) >>, << "call", c, cid[c], "stub" >>)
    /\ cpc' = [cpc EXCEPT ![c] = "done"]
    /\ cres' = [cres EXCEPT ![c] = Returned]
    /\ UNCHANGED << traits, codec, route, exec, tcp, running, transport, cancelled, stop_lock, spc,
                    queue_cancelled, writerVars, readerVars, last_call_id, completions,
                    ckind, cid, ncompl, errVars, hook_calls, ninstalls >>

(* --------------------------- request handler -------------------------- *)

\* tail of execute_request: "if (!cancel.is_cancelled())" pushes a
\* response_error carrying hr unless the message is a void_request
ErrorReplyAlways(m, hr, canc) ==
    IF ~canc
    THEN << Msg(m.call_id, "response_error", m.id, HresultBytes(hr)) >>
    ELSE << >>

ErrorReply(m, hr, canc) ==
    IF ~canc /\ m.type # "void_request"
    THEN << Msg(m.call_id, "response_error", m.id, HresultBytes(hr)) >>
    ELSE << >>

\* the reply of a successful dispatch
ResponseReply(m, p) == << Msg(m.call_id, "response", m.id, p) >>

\* execute_request suspends in the user's implementation: a request for an
\* async method on a server whose scope is not cancelled
Suspends(m) ==
    /\ traits.server /\ m.type = "request" /\ ~cancelled
    /\ m.id \in MethodTable /\ ~IsVoidMethod(m.id)

\* messages execute_request pushes when it runs to its end without
\* suspending: no server, void_request, cancelled token, unknown method
\* (dispatch throws E_NOTIMPL), or a request naming a fire-and-forget method
\* (dispatch returns an empty payload). The first variant has no branch of
\* its own for the missing server: the request fails the method lookup.
execute_request_sync_lookup(m) ==
    IF m.type = "void_request" THEN << >>
    ELSE IF cancelled THEN ErrorReply(m, E_CANCELLED, cancelled)
    ELSE IF ~traits.server \/ m.id \notin MethodTable THEN ErrorReply(m, E_NOTIMPL, cancelled)
    ELSE ResponseReply(m, << >>) \o ErrorReply(m, S_OK, cancelled)

execute_request_sync(m) ==
    IF ~traits.server THEN ErrorReply(m, E_INVALIDARG, cancelled)
    ELSE IF m.type = "void_request" THEN << >>
    ELSE IF cancelled THEN ErrorReply(m, E_CANCELLED, cancelled)
    ELSE IF m.id \notin MethodTable THEN ErrorReply(m, E_NOTIMPL, cancelled)
    ELSE ResponseReply(m, << >>) \o ErrorReply(m, S_OK, cancelled)

\* messages execute_request pushes after the implementation has completed;
\* the first variant reports every failure with the generic code
execute_request_resume_generic(m, outcome) ==
    CASE outcome = "ok"      -> ResponseReply(m, ResultPayload) \o ErrorReply(m, S_OK, cancelled)
      [] outcome = "hresult" -> ErrorReply(m, E_FAIL, cancelled)
      [] outcome = "other"   -> ErrorReply(m, E_FAIL, cancelled)

execute_request_resume(m, outcome) ==
    CASE outcome = "ok"      -> ResponseReply(m, ResultPayload) \o ErrorReply(m, S_OK, cancelled)
      [] outcome = "hresult" -> ErrorReply(m, ImplError, cancelled)
      [] outcome = "other"   -> ErrorReply(m, E_FAIL, cancelled)

\* the continuation of execute_request after co_await this->dispatch(...)
handler_complete(i, outcome) ==
    /\ hpc[i] = "running"
    /\ Push(execute_request_resume(hmsg[i], outcome), << "handler", i, hmsg[i].call_id, hmsg[i].type >>)
    /\ hpc' = [hpc EXCEPT ![i] = "done"]
    /\ hmsg' = [hmsg EXCEPT ![i] = None]
    /\ outstanding' = outstanding - 1
    /\ finished' = (finished \/ outstanding = 1)
    /\ UNCHANGED << traits, codec, route, exec, tcp, running, transport, cancelled, stop_lock, spc,
                    queue_cancelled, writerVars, rpc, nreads, message, last_call_id,
                    completions, callVars, errVars, hook_calls, ninstalls >>

(* ------------------------------- reader ------------------------------- *)

\* the result a reply message delivers to the caller's promise; the first
\* variant never reads the code out of an error reply, the second hands
\* over as a result what has not the size of a code
ReplyResultNoCode(m) ==
    IF m.type = "response_error" THEN Error(E_FAIL) ELSE Value(m.payload)

ReplyResultBySize(m) ==
    IF m.type = "response_error" /\ Len(m.payload) = 4
    THEN Error(ReadHresult(m.payload))
    ELSE Value(m.payload)

ReplyResult(m) ==
    IF m.type = "response_error"
    THEN IF Len(m.payload) = 4 THEN Error(ReadHresult(m.payload)) ELSE Error(E_FAIL)
    ELSE Value(m.payload)

IsReply(m) == m.type \in {"response", "response_error"}

\* the reader's loop exit: outstanding_requests.fetch_sub(1), finished.set()
\* when it was the last; n is the counter before the fetch_sub
ReaderLeaves(n) ==
    /\ rpc' = "drain"
    /\ outstanding' = n - 1
    /\ finished' = (finished \/ n = 1)

\* completions.find(message.call_id): the keys found (none or one)
FindAny(tbl, id) ==
    IF DOMAIN tbl = {} THEN {} ELSE { CHOOSE k \in DOMAIN tbl : \A j \in DOMAIN tbl : k <= j }

Find(tbl, id) == IF id \in DOMAIN tbl THEN { id } ELSE {}

\* one iteration of the reader's loop: transport->read() returns m
reader_receive(m) ==
    /\ rpc = "reading" /\ nreads < MaxReads
    /\ nreads' = nreads + 1
    /\ message' = m
    /\ IF IsReply(m)
       THEN /\ IF Find(completions, m.call_id) # {}
               THEN LET k == CHOOSE x \in Find(completions, m.call_id) : TRUE
                        c == completions[k] IN
                    /\ completions' = Erase(completions, k)
                    /\ cres' = [cres EXCEPT ![c] = ReplyResult(m)]
                    /\ ncompl' = [ncompl EXCEPT ![c] = @ + 1]
                    /\ cpc' = [cpc EXCEPT ![c] = IF @ = "awaiting" THEN "done" ELSE @]
               ELSE UNCHANGED << completions, cres, ncompl, cpc >>
            /\ UNCHANGED << write_queue, pushed, hpc, hmsg >>
            /\ IF cancelled THEN ReaderLeaves(outstanding)
               ELSE UNCHANGED << rpc, outstanding, finished >>
       ELSE /\ UNCHANGED << completions, cres, ncompl, cpc >>
            /\ IF Suspends(m)
               THEN /\ hpc' = [hpc EXCEPT ![nreads + 1] = "running"]
                    /\ hmsg' = [hmsg EXCEPT ![nreads + 1] = m]
                    /\ UNCHANGED << write_queue, pushed, rpc, finished >>
                    /\ outstanding' = outstanding + 1
               ELSE /\ hpc' = [hpc EXCEPT ![nreads + 1] = "done"]
                    /\ UNCHANGED hmsg
                    /\ Push(execute_request_sync(m), << "handler", nreads + 1, m.call_id, m.type >>)
                    /\ IF cancelled THEN ReaderLeaves(outstanding)
                       ELSE UNCHANGED << rpc, outstanding, finished >>
    /\ UNCHANGED << traits, codec, route, exec, tcp, running, transport, cancelled, stop_lock, spc,
                    queue_cancelled, writerVars, last_call_id, ckind, cid,
                    errVars, hook_calls, ninstalls >>

(* ------------- the reader inside execute_request, step by step ---------- *)

\* first variant: the implementation of any method of the table is invoked,
\* whatever the call type of the message
InvokesAnyShape(m) ==
    \/ Suspends(m)
    \/ /\ traits.server /\ m.type = "void_request"
       /\ m.id \in MethodTable

\* dispatch and void_dispatch invoke the implementation: a void_request
\* naming a fire-and-forget method, or a request naming an async method on
\* a scope that is not cancelled
Invokes(m) ==
    \/ Suspends(m)
    \/ /\ traits.server /\ m.type = "void_request"
       /\ m.id \in MethodTable /\ IsVoidMethod(m.id)

\* where the reader is after it called execute_request(...) and the
\* implementation was invoked: execute_request is not awaited, but runs on
\* the reader until it suspends or returns. In the first variant it would
\* run elsewhere and the reader would go on reading.
ReaderNotBlocked == "reading"

ReaderAfterInvoke == "executing"

Event(i, ev, m) == [i |-> i, ev |-> ev, type |-> m.type, id |-> m.id]

\* the reader's next iteration after execute_request handed control back:
\* "while (!token.is_cancelled())"
ReaderResumes ==
    IF cancelled THEN ReaderLeaves(outstanding)
    ELSE rpc' = "reading" /\ UNCHANGED << outstanding, finished >>

\* transport->read() returns the request m and execute_request starts: it
\* either invokes the implementation or runs to its end without it
reader_read(m) ==
    /\ rpc = "reading" /\ nreads < MaxReads
    /\ ~IsReply(m)
    /\ nreads' = nreads + 1
    /\ message' = m
    /\ IF Invokes(m)
       THEN /\ exec' = [cur |-> exec.cur \cup { nreads + 1 },
                        log |-> Append(exec.log, Event(nreads + 1, "invoked", m))]
            /\ hpc' = [hpc EXCEPT ![nreads + 1] = "invoked"]
            /\ hmsg' = [hmsg EXCEPT ![nreads + 1] = m]
            /\ rpc' = ReaderAfterInvoke
            /\ outstanding' = IF m.type = "request" THEN outstanding + 1 ELSE outstanding
            /\ UNCHANGED << write_queue, pushed, finished >>
       ELSE /\ hpc' = [hpc EXCEPT ![nreads + 1] = "done"]
            /\ Push(execute_request_sync(m), << "handler", nreads + 1, m.call_id, m.type >>)
            /\ ReaderResumes
            /\ UNCHANGED << exec, hmsg >>
    /\ UNCHANGED << traits, codec, route, tcp, running, transport, cancelled, stop_lock, spc,
                    queue_cancelled, writerVars, last_call_id, completions, callVars,
                    errVars, hook_calls, ninstalls >>

\* the fire-and-forget implementation returns or throws; void_dispatch and
\* execute_request return to the reader without a reply
impl_returns(i) ==
    /\ hpc[i] = "invoked" /\ hmsg[i].type = "void_request"
    /\ exec' = [cur |-> exec.cur \ { i },
                log |-> Append(exec.log, Event(i, "returned", hmsg[i]))]
    /\ hpc' = [hpc EXCEPT ![i] = "done"]
    /\ hmsg' = [hmsg EXCEPT ![i] = None]
    /\ IF rpc = ReaderAfterInvoke THEN ReaderResumes
       ELSE UNCHANGED << rpc, outstanding, finished >>
    /\ UNCHANGED << traits, codec, route, tcp, connVars, stop_lock, spc, writerVars, pushed,
                    nreads, message, callVars, hook_pending, captured, hook_calls,
                    ninstalls >>

\* the async implementation reaches its first suspension: execute_request
\* suspends in "co_await this->dispatch(...)" and the reader goes on
impl_suspends(i) ==
    /\ hpc[i] = "invoked" /\ hmsg[i].type = "request"
    /\ exec' = [cur |-> exec.cur \ { i },
                log |-> Append(exec.log, Event(i, "suspended", hmsg[i]))]
    /\ hpc' = [hpc EXCEPT ![i] = "running"]
    /\ IF rpc = ReaderAfterInvoke THEN ReaderResumes
       ELSE UNCHANGED << rpc, outstanding, finished >>
    /\ UNCHANGED << traits, codec, route, tcp, connVars, stop_lock, spc, writerVars, pushed,
                    nreads, message, hmsg, callVars, hook_pending, captured, hook_calls,
                    ninstalls >>

\* transport->read() throws: a transport failure, or the read was cancelled.
\* In the first variant the reader also releases the transport and clears
\* running, as stop does.
reader_fail_stops ==
    /\ rpc = "reading"
    /\ cancelled' = TRUE
    /\ queue_cancelled' = QueueAfterCancel
    /\ error_on_background(IF cancelled THEN E_CANCELLED ELSE E_CONNRESET, "receive")
    /\ ReaderLeaves(outstanding)
    /\ running' = FALSE
    /\ transport' = FALSE
    /\ UNCHANGED << traits, codec, route, exec, tcp, stop_lock, spc, write_queue,
                    writerVars, pushed, nreads, message, hpc, hmsg, last_call_id, completions,
                    callVars, hook_calls, ninstalls >>

reader_fail ==
    /\ rpc = "reading"
    /\ cancelled' = TRUE
    /\ queue_cancelled' = QueueAfterCancel
    /\ error_on_background(IF cancelled THEN E_CANCELLED ELSE E_CONNRESET, "receive")
    /\ ReaderLeaves(outstanding)
    /\ UNCHANGED << traits, codec, route, exec, tcp, running, transport, stop_lock, spc, write_queue,
                    writerVars, pushed, nreads, message, hpc, hmsg, last_call_id, completions,
                    callVars, hook_calls, ninstalls >>

\* finished.get_future().wait(): what lets the reader task end
WaitSkipped == TRUE

WaitFinished == finished

\* finished.get_future().wait() returns and the reader task ends
reader_done ==
    /\ rpc = "drain" /\ WaitFinished
    /\ rpc' = "done"
    /\ UNCHANGED << traits, codec, route, exec, tcp, connVars, stop_lock, spc, writerVars, pushed, nreads, message,
                    outstanding, finished, hpc, hmsg, callVars, hook_pending,
                    captured, hook_calls, ninstalls >>

(* ------------------------------- writer ------------------------------- *)

\* the message co_await write_queue.next() hands to the writer
NewestMessage(q) == q[Len(q)]

NextMessage(q) == Head(q)
\* what the writer leaves in the queue
RestOfQueue(q) == Tail(q)
\* where the writer goes once it has called transport->write(message):
\* co_await keeps it there until the write completes
NotAwaited == "wait"

AfterWriteCall == "writing"

\* co_await write_queue.next() returns a message; transport->write is called
writer_take ==
    /\ wpc = "wait" /\ ~queue_cancelled /\ write_queue # << >>
    /\ wcur' = NextMessage(write_queue)
    /\ write_queue' = RestOfQueue(write_queue)
    /\ wire' = Append(wire, NextMessage(write_queue))
    /\ writes_active' = writes_active + 1
    /\ wpc' = AfterWriteCall
    /\ UNCHANGED << traits, codec, route, exec, tcp, running, transport, cancelled, stop_lock, spc,
                    queue_cancelled, pushed, readerVars, last_call_id, completions,
                    callVars, errVars, hook_calls, ninstalls >>

\* co_await transport->write(...) completes; the loop tests the token
writer_write_ok ==
    /\ writes_active > 0 /\ wpc \in {"writing", "wait"}
    /\ writes_active' = writes_active - 1
    /\ wcur' = None
    /\ wpc' = IF wpc = "writing" THEN (IF cancelled THEN "done" ELSE "wait") ELSE wpc
    /\ UNCHANGED << traits, codec, route, exec, tcp, connVars, stop_lock, spc, wire, pushed, readerVars,
                    callVars, hook_pending, captured, hook_calls, ninstalls >>

\* co_await transport->write(...) throws hresult_error; in the first variant
\* the writer reports the error and goes on with the next message
writer_write_fail_continues ==
    /\ wpc = "writing"
    /\ writes_active' = writes_active - 1
    /\ wcur' = None
    /\ error_on_background(IF cancelled THEN E_CANCELLED ELSE E_CONNRESET, "send")
    /\ wpc' = "wait"
    /\ UNCHANGED << traits, codec, route, exec, tcp, running, transport, cancelled, queue_cancelled,
                    stop_lock, spc, write_queue, wire, pushed, readerVars, last_call_id,
                    completions, callVars, hook_calls, ninstalls >>

writer_write_fail ==
    /\ wpc = "writing"
    /\ writes_active' = writes_active - 1
    /\ wcur' = None
    /\ cancelled' = TRUE
    /\ queue_cancelled' = TRUE
    /\ error_on_background(IF cancelled THEN E_CANCELLED ELSE E_CONNRESET, "send")
    /\ wpc' = "done"
    /\ UNCHANGED << traits, codec, route, exec, tcp, running, transport, stop_lock, spc, write_queue, wire,
                    pushed, readerVars, last_call_id, completions, callVars,
                    hook_calls, ninstalls >>

\* co_await write_queue.next() fails on the cancelled queue; the writer ends
writer_cancelled ==
    /\ wpc = "wait" /\ queue_cancelled
    /\ wpc' = "done"
    /\ UNCHANGED << traits, codec, route, exec, tcp, connVars, stop_lock, spc, wcur, wire, writes_active,
                    pushed, readerVars, callVars, hook_pending, captured, hook_calls,
                    ninstalls >>

(* -------------------------------- stop -------------------------------- *)

\* what a call to stop does after acquiring stop_lock: the test of `running`
AlwaysProceeds == TRUE

StopProceeds == running

\* stop: scoped_lock{stop_lock}; if running, error_on_background(E_ABORT, stop);
\* otherwise the lock is released and stop returns. The first variant goes
\* on to cancel without reporting.
stop_begin_silent(t) ==
    /\ spc[t] \in {"idle", "called"} /\ stop_lock = 0
    /\ IF StopProceeds
       THEN /\ stop_lock' = t
            /\ spc' = [spc EXCEPT ![t] = "cancel"]
       ELSE /\ spc' = [spc EXCEPT ![t] = IF rpc = "none" THEN "noop_idle" ELSE "noop"]
            /\ UNCHANGED stop_lock
    /\ UNCHANGED << traits, codec, route, exec, tcp, running, transport, cancelled, write_queue, queue_cancelled,
                    writerVars, pushed, readerVars, last_call_id, completions,
                    callVars, errVars, hook_calls, ninstalls >>

stop_begin(t) ==
    /\ spc[t] \in {"idle", "called"} /\ stop_lock = 0
    /\ IF StopProceeds
       THEN /\ stop_lock' = t
            /\ error_on_background(E_ABORT, "stop")
            /\ spc' = [spc EXCEPT ![t] = "cancel"]
       ELSE /\ spc' = [spc EXCEPT ![t] = IF rpc = "none" THEN "noop_idle" ELSE "noop"]
            /\ UNCHANGED << stop_lock, errVars >>
    /\ UNCHANGED << traits, codec, route, exec, tcp, running, transport, cancelled, write_queue, queue_cancelled,
                    writerVars, pushed, readerVars, last_call_id, completions,
                    callVars, hook_calls, ninstalls >>

\* stop: cancel.cancel()
stop_cancel(t) ==
    /\ spc[t] = "cancel"
    /\ cancelled' = TRUE
    /\ queue_cancelled' = QueueAfterCancel
    /\ spc' = [spc EXCEPT ![t] = "join"]
    /\ UNCHANGED << traits, codec, route, exec, tcp, running, transport, stop_lock, write_queue, writerVars,
                    pushed, readerVars, last_call_id, completions, callVars, errVars,
                    hook_calls, ninstalls >>

\* block_wait(when_all(writer_task, reader_task)) returns; the first
\* variant waits for the writer only
WriterEnded == wpc = "done"

TasksEnded == wpc = "done" /\ rpc = "done"

\* the pending-call table after stop has drained it
Drained(tbl) == << >>

\* stop: block_wait(when_all(writer_task, reader_task)), then every pending
\* promise gets operation_cancelled and completions.clear()
stop_join(t) ==
    /\ spc[t] = "join"
    /\ TasksEnded
    /\ LET pend == { completions[k] : k \in DOMAIN completions } IN
       /\ cres' = [c \in Calls |-> IF c \in pend THEN Cancelled ELSE cres[c]]
       /\ ncompl' = [c \in Calls |-> IF c \in pend THEN ncompl[c] + 1 ELSE ncompl[c]]
       /\ cpc' = [c \in Calls |-> IF c \in pend /\ cpc[c] = "awaiting" THEN "done" ELSE cpc[c]]
    /\ completions' = Drained(completions)
    /\ spc' = [spc EXCEPT ![t] = "release"]
    /\ UNCHANGED << traits, codec, route, exec, tcp, running, transport, cancelled, stop_lock, write_queue,
                    queue_cancelled, writerVars, pushed, readerVars, last_call_id,
                    ckind, cid, errVars, hook_calls, ninstalls >>

\* stop: transport.reset(); cancel = {}; running = false; stop_lock released
stop_finish(t) ==
    /\ spc[t] = "release"
    /\ transport' = FALSE
    /\ cancelled' = FALSE
    /\ running' = FALSE
    /\ stop_lock' = 0
    /\ spc' = [spc EXCEPT ![t] = "done"]
    /\ UNCHANGED << traits, codec, route, exec, tcp, write_queue, queue_cancelled, writerVars, pushed,
                    readerVars, last_call_id, completions, callVars, errVars,
                    hook_calls, ninstalls >>

(* ---------------------- stop called by a handler ---------------------- *)

\* the request whose implementation calls stop, and the thread it runs on
StoppingHandler == 1
HandlerThread == MaxStoppers

\* the running implementation of request i calls stop() on thread t: the
\* thread is at "std::scoped_lock l{ stop_lock }" and the implementation
\* goes on only when stop has returned
handler_stop_call(i, t) ==
    /\ hpc[i] = "running" /\ spc[t] = "idle"
    /\ spc' = [spc EXCEPT ![t] = "called"]
    /\ UNCHANGED << traits, codec, route, exec, tcp, connVars, stop_lock, writerVars, pushed,
                    readerVars, callVars, hook_pending, captured, hook_calls, ninstalls >>

\* the implementation of request i is not inside a call to stop
NotInStop(i) ==
    i = StoppingHandler => spc[HandlerThread] \in {"idle", "done", "noop", "noop_idle"}

(* ----------------------------- error hook ----------------------------- *)

\* std::exchange(last_error, {}) in on_error: what last_error holds afterwards
ExchangeKeeps(err) == err

ExchangeLastError(err) == None

\* connection::on_error(f)
on_error ==
    /\ ninstalls < MaxInstalls
    /\ ninstalls' = ninstalls + 1
    /\ IF last_error # None
       THEN /\ hook_calls' = Append(hook_calls, [hr |-> last_error.hr, state |-> last_error.state,
                                                 f |-> ninstalls + 1])
            /\ last_error' = ExchangeLastError(last_error)
            /\ UNCHANGED error_handler
       ELSE /\ error_handler' = ninstalls + 1
            /\ UNCHANGED << hook_calls, last_error >>
    /\ UNCHANGED << traits, codec, route, exec, tcp, running, transport, cancelled, stop_lock, spc, write_queue,
                    queue_cancelled, writerVars, pushed, readerVars, last_call_id,
                    completions, callVars, hook_pending, captured >>

\* connection::on_error(): the installed handler, if any, is dropped
on_error_clear ==
    /\ error_handler # 0
    /\ error_handler' = 0
    /\ UNCHANGED << traits, codec, route, exec, tcp, running, transport, cancelled, stop_lock, spc, write_queue,
                    queue_cancelled, writerVars, pushed, readerVars, last_call_id,
                    completions, callVars, last_error, hook_pending, captured,
                    hook_calls, ninstalls >>

\* error_on_background_: after resume_background the handler is invoked
hook_fire(k) ==
    /\ k \in 1..Len(hook_pending)
    /\ hook_calls' = Append(hook_calls, hook_pending[k])
    /\ hook_pending' = SubSeq(hook_pending, 1, k - 1) \o SubSeq(hook_pending, k + 1, Len(hook_pending))
    /\ UNCHANGED << traits, codec, route, exec, tcp, running, transport, cancelled, stop_lock, spc, write_queue,
                    queue_cancelled, writerVars, pushed, readerVars, last_call_id,
                    completions, callVars, error_handler, last_error, captured,
                    ninstalls >>

(* ----------------------------- method ids ----------------------------- *)

\* a uint32_t as its two 16-bit halves << high, low >>
Half == 65536

\* x ^ y on 8-bit values
RECURSIVE Xor8(_, _, _)
Xor8(x, y, bits) ==
    IF bits = 0 THEN 0
    ELSE ((x + y) % 2) + 2 * Xor8(x \div 2, y \div 2, bits - 1)

\* val ^= c for a character below 128
XorChar(val, c) == << val[1], (val[2] \div 256) * 256 + Xor8(val[2] % 256, c, 8) >>

\* val *= prime, prime = 16777619 = 2^24 + 403, modulo 2^32
FnvPrimeLow == 403
MulPrime(val) ==
    LET low == val[2] * FnvPrimeLow IN
    << (val[1] * FnvPrimeLow + low \div Half + (val[2] % 256) * 256) % Half, low % Half >>

\* the offset basis 2166136261 = 0x811C9DC5
FnvBasis == << 33052, 40389 >>

\* fnv::fnv_hash(text), text a sequence of character codes
RECURSIVE FnvFrom(_, _)
FnvFrom(val, text) ==
    IF text = << >> THEN val ELSE FnvFrom(MulPrime(XorChar(val, Head(text))), Tail(text))

fnv_hash(text) == FnvFrom(FnvBasis, text)

\* get_method_id<M>(): the id of the method declared under `name`
get_method_id(name) == fnv_hash(name)

\* operator< and operator== of method_id (comparison of the uint32_t)
IdLess(a, b) == a[1] < b[1] \/ (a[1] = b[1] /\ a[2] < b[2])

\* build_method_map before the sort: entry ord (counted from 0) holds the
\* id of the ord-th declared method
RECURSIVE Entries(_, _)
Entries(methods, ord) ==
    IF methods = << >> THEN << >>
    ELSE << [name |-> get_method_id(Head(methods)), ordinal |-> ord] >>
         \o Entries(Tail(methods), ord + 1)

IsSorted(map) == \A i \in 1..Len(map) - 1 : ~IdLess(map[i + 1].name, map[i].name)

Orderings(q) ==
    { [i \in DOMAIN q |-> q[f[i]]] :
        f \in { g \in [DOMAIN q -> DOMAIN q] : \A i, j \in DOMAIN q : i # j => g[i] # g[j] } }

\* build_method_map: the arrays sr::sort may leave (entries with equal ids
\* in either order); the first variant leaves the array in declaration order
build_method_map_unsorted(methods) == { Entries(methods, 0) }

build_method_map(methods) == { m \in Orderings(Entries(methods, 0)) : IsSorted(m) }

\* sr::lower_bound(map, id) by id: the position (counted from 1) of the first
\* entry whose id is not less than id, Len(map) + 1 for end()
RECURSIVE lower_bound(_, _, _, _)
lower_bound(map, id, first, count) ==
    IF count = 0 THEN first
    ELSE LET step == count \div 2
             it == first + step IN
         IF IdLess(map[it].name, id)
         THEN lower_bound(map, id, it + 1, count - step - 1)
         ELSE lower_bound(map, id, first, step)

\* marshal_server::dispatch / void_dispatch: the declared method whose
\* implementation is invoked for id, or NotImplemented
NotImplemented == << >>

dispatch(methods, map, id) ==
    LET it == lower_bound(map, id, 1, Len(map)) IN
    IF it <= Len(map) /\ map[it].name = id
    THEN methods[map[it].ordinal + 1]
    ELSE NotImplemented

\* method names, as character codes: a, ab, glbvs, yacxa
MethodNames ==
    { << 97 >>, << 97, 98 >>,
      << 103, 108, 98, 118, 115 >>, << 121, 97, 99, 120, 97 >> }

\* interfaces: up to MaxMethods distinct names in declaration order
RECURSIVE Declarations(_)
Declarations(n) ==
    IF n = 0 THEN { << >> }
    ELSE Declarations(n - 1)
         \cup { Append(q, x) : q \in { r \in Declarations(n - 1) : Len(r) = n - 1 },
                                 x \in MethodNames }

Interfaces ==
    { q \in Declarations(MaxMethods) :
        q # << >> /\ \A i, j \in DOMAIN q : i # j => q[i] # q[j] }

\* the two ends are built, each from its own declaration of the interface
route_declare(client, server) ==
    /\ route.pc = "idle"
    /\ route' = [pc |-> "declared", client |-> client, server |-> server]
    /\ UNCHANGED << traits, codec, exec, tcp, connVars, stop_lock, spc, writerVars, pushed, readerVars,
                    callVars, hook_pending, captured, hook_calls, ninstalls >>

\* the client calls the i-th method of its interface: the request carries
\* the id marshal_client stored in the stub
route_call(i) ==
    /\ route.pc = "declared" /\ i \in DOMAIN route.client
    /\ route' = [pc |-> "called", client |-> route.client, server |-> route.server,
                 method |-> route.client[i], id |-> get_method_id(route.client[i])]
    /\ UNCHANGED << traits, codec, exec, tcp, connVars, stop_lock, spc, writerVars, pushed, readerVars,
                    callVars, hook_pending, captured, hook_calls, ninstalls >>

\* the server dispatches the request
route_dispatch ==
    /\ route.pc = "called"
    /\ \E map \in build_method_map(route.server) :
          route' = [pc |-> "dispatched", client |-> route.client, server |-> route.server,
                    method |-> route.method, id |-> route.id,
                    invoked |-> dispatch(route.server, map, route.id)]
    /\ UNCHANGED << traits, codec, exec, tcp, connVars, stop_lock, spc, writerVars, pushed, readerVars,
                    callVars, hook_pending, captured, hook_calls, ninstalls >>

RouteSteps ==
    \/ route.pc = "idle" /\ \E client \in Interfaces, server \in Interfaces :
                                  route_declare(client, server)
    \/ \E i \in 1..MaxMethods : route_call(i)
    \/ route_dispatch

(* -------------------------------- codec ------------------------------- *)

\* type descriptors of the values handed to Writer::operator<<
I32 == [k |-> "i32"]
Bool == [k |-> "bool"]
String == [k |-> "string"]
Vector(e) == [k |-> "vector", e |-> e]
List(e) == [k |-> "list", e |-> e]
Optional(e) == [k |-> "optional", e |-> e]
Expected(v, e) == [k |-> "expected", v |-> v, e |-> e]
Pair(a, b) == [k |-> "pair", a |-> a, b |-> b]
Tuple(ts) == [k |-> "tuple", ts |-> ts]
Variant(ts) == [k |-> "variant", ts |-> ts]

\* std::is_trivially_copyable of the element types used here, and sizeof
is_trivially_copyable(ty) == ty.k \in {"i32", "bool"}
SizeOf(ty) == IF ty.k = "i32" THEN 4 ELSE 1

\* n bytes of value g
RECURSIVE Fill(_, _)
Fill(g, n) == IF n = 0 THEN << >> ELSE << g >> \o Fill(g, n - 1)

\* Writer::write(val): the bytes appended to storage. g is the value of the
\* bytes Writer::write(begin, end, true_type) finds behind the first element
\* of a collection whose elements are not contiguous in memory.
RECURSIVE write(_, _, _), write_each(_, _, _), write_tuple_helper(_, _, _)
write(ty, v, g) ==
    CASE ty.k = "i32" -> LEBytes(v, 4)
      [] ty.k = "bool" -> << IF v THEN 1 ELSE 0 >>
      [] ty.k = "string" -> LEBytes(Len(v), 4) \o v
      [] ty.k = "vector" ->
            LEBytes(Len(v), 4) \o write_each(ty.e, v, g)
      [] ty.k = "list" ->
            LEBytes(Len(v), 4) \o
              (IF is_trivially_copyable(ty.e)
               THEN IF v = << >> THEN << >>
                    ELSE write(ty.e, v[1], g) \o Fill(g, SizeOf(ty.e) * (Len(v) - 1))
               ELSE write_each(ty.e, v, g))
      [] ty.k = "optional" ->
            IF v.present THEN << 1 >> \o write(ty.e, v.v, g) ELSE << 0 >>
      [] ty.k = "expected" ->
            IF v.present THEN << 1 >> \o write(ty.v, v.v, g) ELSE << 0 >> \o write(ty.e, v.e, g)
      [] ty.k = "pair" -> write(ty.a, v[1], g) \o write(ty.b, v[2], g)
      [] ty.k = "tuple" -> write_tuple_helper(ty.ts, v, g)
      [] ty.k = "variant" -> LEBytes(v.index, 2) \o write(ty.ts[v.index + 1], v.v, g)

\* the elements of a contiguous or element-wise written range, in order
write_each(e, v, g) ==
    IF v = << >> THEN << >> ELSE write(e, Head(v), g) \o write_each(e, Tail(v), g)

write_tuple_helper(ts, v, g) ==
    IF ts = << >> THEN << >>
    ELSE write(Head(ts), Head(v), g) \o write_tuple_helper(Tail(ts), Tail(v), g)

\* a value-initialised object of the type: what a fresh target holds
RECURSIVE Fresh(_), FreshTuple(_)
Fresh(ty) ==
    CASE ty.k = "i32" -> 0
      [] ty.k = "bool" -> FALSE
      [] ty.k \in {"string", "vector", "list"} -> << >>
      [] ty.k = "optional" -> [present |-> FALSE]
      [] ty.k = "expected" -> [present |-> TRUE, v |-> Fresh(ty.v)]
      [] ty.k = "pair" -> << Fresh(ty.a), Fresh(ty.b) >>
      [] ty.k = "tuple" -> FreshTuple(ty.ts)
      [] ty.k = "variant" -> [index |-> 0, v |-> Fresh(ty.ts[1])]

FreshTuple(ts) == IF ts = << >> THEN << >> ELSE << Fresh(Head(ts)) >> \o FreshTuple(Tail(ts))

\* n value-initialised elements: the collection after resize(n)
RECURSIVE Resized(_, _)
Resized(e, n) == IF n = 0 THEN << >> ELSE << Fresh(e) >> \o Resized(e, n - 1)

\* a 32-bit / 16-bit count read from the front of p
ReadCount(p) == p[1] + 256 * p[2] + 65536 * p[3] + 16777216 * p[4]
ReadIndex(p) == p[1] + 256 * p[2]

Drop(p, n) == SubSeq(p, n + 1, Len(p))

\* Reader::read(val) into a fresh target: the value read, the bytes left
\* behind the cursor, and whether the read wrote outside the target
RECURSIVE read(_, _), read_each(_, _, _), read_tuple_helper(_, _)
read(ty, p) ==
    CASE ty.k = "i32" -> [v |-> ReadHresult(p), rest |-> Drop(p, 4), overrun |-> FALSE,
                  unreachable |-> FALSE]
      [] ty.k = "bool" -> [v |-> (p[1] # 0), rest |-> Drop(p, 1), overrun |-> FALSE,
                  unreachable |-> FALSE]
      [] ty.k = "string" ->
            LET n == ReadCount(p) IN
            [v |-> SubSeq(p, 5, 4 + n), rest |-> Drop(p, 4 + n), overrun |-> FALSE,
                  unreachable |-> FALSE]
      [] ty.k = "vector" -> read_each(ty.e, ReadCount(p), Drop(p, 4))
      [] ty.k = "list" ->
            LET n == ReadCount(p)
                q == Drop(p, 4) IN
            IF is_trivially_copyable(ty.e)
            THEN IF n = 0 THEN [v |-> << >>, rest |-> q, overrun |-> FALSE,
                  unreachable |-> FALSE]
                 ELSE [v |-> << read(ty.e, q).v >> \o Resized(ty.e, n - 1),
                       rest |-> Drop(q, SizeOf(ty.e) * n),
                       overrun |-> n > 1,
                  unreachable |-> FALSE]
            ELSE read_each(ty.e, n, q)
      [] ty.k = "optional" ->
            IF p[1] # 0
            THEN LET r == read(ty.e, Drop(p, 1)) IN
                 [v |-> [present |-> TRUE, v |-> r.v], rest |-> r.rest, overrun |-> r.overrun,
                  unreachable |-> r.unreachable]
            ELSE [v |-> Fresh(ty), rest |-> Drop(p, 1), overrun |-> FALSE,
                  unreachable |-> FALSE]
      [] ty.k = "expected" ->
            IF p[1] # 0
            THEN LET r == read(ty.v, Drop(p, 1)) IN
                 [v |-> [present |-> TRUE, v |-> r.v], rest |-> r.rest, overrun |-> r.overrun,
                  unreachable |-> r.unreachable]
            ELSE LET r == read(ty.e, Drop(p, 1)) IN
                 [v |-> [present |-> FALSE, e |-> r.v], rest |-> r.rest, overrun |-> r.overrun,
                  unreachable |-> r.unreachable]
      [] ty.k = "pair" ->
            LET a == read(ty.a, p)
                b == read(ty.b, a.rest) IN
            [v |-> << a.v, b.v >>, rest |-> b.rest, overrun |-> a.overrun \/ b.overrun,
                  unreachable |-> a.unreachable \/ b.unreachable]
      [] ty.k = "tuple" -> read_tuple_helper(ty.ts, p)
      [] ty.k = "variant" ->
            LET i == ReadIndex(p) IN
            IF i < Len(ty.ts)
            THEN LET r == read(ty.ts[i + 1], Drop(p, 2)) IN
                 [v |-> [index |-> i, v |-> r.v], rest |-> r.rest, overrun |-> r.overrun,
                  unreachable |-> r.unreachable]
            ELSE [v |-> Fresh(ty), rest |-> Drop(p, 2), overrun |-> FALSE, unreachable |-> TRUE]

\* n elements read one after the other
read_each(e, n, p) ==
    IF n = 0 THEN [v |-> << >>, rest |-> p, overrun |-> FALSE,
                  unreachable |-> FALSE]
    ELSE LET h == read(e, p)
             t == read_each(e, n - 1, h.rest) IN
         [v |-> << h.v >> \o t.v, rest |-> t.rest, overrun |-> h.overrun \/ t.overrun,
                  unreachable |-> h.unreachable \/ t.unreachable]

read_tuple_helper(ts, p) ==
    IF ts = << >> THEN [v |-> << >>, rest |-> p, overrun |-> FALSE,
                  unreachable |-> FALSE]
    ELSE LET h == read(Head(ts), p)
             t == read_tuple_helper(Tail(ts), h.rest) IN
         [v |-> << h.v >> \o t.v, rest |-> t.rest, overrun |-> h.overrun \/ t.overrun,
                  unreachable |-> h.unreachable \/ t.unreachable]

\* the values the codec is exercised with
Ints == { -2147467263, -2, 0, 7, 300 }
Chars == { 97, 98 }
StaleBytes == { 0, 205 }

RECURSIVE SeqsOf(_, _)
SeqsOf(S, n) ==
    IF n = 0 THEN { << >> }
    ELSE SeqsOf(S, n - 1) \cup { Append(q, x) : q \in { r \in SeqsOf(S, n - 1) : Len(r) = n - 1 }, x \in S }

RECURSIVE ValuesOf(_), TupleValues(_)
ValuesOf(ty) ==
    CASE ty.k = "i32" -> Ints
      [] ty.k = "bool" -> BOOLEAN
      [] ty.k = "string" -> SeqsOf(Chars, MaxLen)
      [] ty.k \in {"vector", "list"} -> SeqsOf(ValuesOf(ty.e), MaxLen)
      [] ty.k = "optional" ->
            { [present |-> FALSE] } \cup { [present |-> TRUE, v |-> x] : x \in ValuesOf(ty.e) }
      [] ty.k = "expected" ->
            { [present |-> TRUE, v |-> x] : x \in ValuesOf(ty.v) }
            \cup { [present |-> FALSE, e |-> x] : x \in ValuesOf(ty.e) }
      [] ty.k = "pair" -> ValuesOf(ty.a) \X ValuesOf(ty.b)
      [] ty.k = "tuple" -> TupleValues(ty.ts)

TupleValues(ts) ==
    IF ts = << >> THEN { << >> }
    ELSE { << h >> \o t : h \in ValuesOf(Head(ts)), t \in TupleValues(Tail(ts)) }

\* the values of a variant that hold its i-th alternative
AlternativeValues(ty, i) == { [index |-> i - 1, v |-> x] : x \in ValuesOf(ty.ts[i]) }

\* the types the codec is exercised with
CodecTypes ==
    { I32, Bool, String, Vector(I32), Vector(String), List(I32), List(String),
      Optional(I32), Optional(String), Expected(I32, String), Pair(I32, Bool),
      Tuple(<< >>), Tuple(<< Bool, String >>), Optional(Vector(I32)) }

VariantTypes == { Variant(<< I32, String >>), Variant(<< Vector(I32), Bool >>) }

\* Writer{} << v
codec_write(ty, v, g) ==
    /\ codec.pc = "idle"
    /\ codec' = [pc |-> "written", from |-> "writer", type |-> ty, value |-> v,
                 storage |-> write(ty, v, g)]
    /\ UNCHANGED << traits, route, exec, tcp, connVars, stop_lock, spc, writerVars, pushed, readerVars,
                    callVars, hook_pending, captured, hook_calls, ninstalls >>

\* the payloads of a peer that names the alternative as it likes: a 16-bit
\* index, in range or not, followed by the encoding of the first alternative
PeerPayloads(ty) ==
    { LEBytes(i, 2) \o write(ty.ts[1], x, 0) : i \in { 0, Len(ty.ts), Len(ty.ts) + 1 },
                                               x \in ValuesOf(ty.ts[1]) }

\* a payload that arrived from the peer is handed to a Reader
codec_receive(ty, p) ==
    /\ codec.pc = "idle"
    /\ codec' = [pc |-> "written", from |-> "peer", type |-> ty, value |-> << >>,
                 storage |-> p]
    /\ UNCHANGED << traits, route, exec, tcp, connVars, stop_lock, spc, writerVars, pushed, readerVars,
                    callVars, hook_pending, captured, hook_calls, ninstalls >>

\* Reader{storage} >> target, the target being fresh; a read that has
\* written outside the target, or has left the cases of mp_with_index, may
\* end the process (the assert of a debug build, a wild jump) or go on
codec_read(crash) ==
    /\ codec.pc = "written" /\ codec.from \in {"writer", "peer"}
    /\ LET r == read(codec.type, codec.storage) IN
       /\ crash => r.overrun \/ r.unreachable
       /\ codec' = [pc |-> IF crash THEN "crashed" ELSE "read", from |-> codec.from,
                    type |-> codec.type,
                    value |-> codec.value, storage |-> codec.storage,
                    target |-> r.v, remaining |-> r.rest]
    /\ UNCHANGED << traits, route, exec, tcp, connVars, stop_lock, spc, writerVars, pushed, readerVars,
                    callVars, hook_pending, captured, hook_calls, ninstalls >>

\* argument types whose encodings arrive cut short
TruncatedTypes == { String, Vector(I32), Tuple(<< Bool, String >>) }

\* the proper prefixes of the encodings of the values of a type
Truncations(ty) ==
    UNION { { SubSeq(w, 1, k) : k \in 0..Len(w) - 1 } : w \in { write(ty, x, 0) : x \in ValuesOf(ty) } }

\* a payload shorter than the encoding asked for is handed to a Reader
codec_receive_short(ty, p) ==
    /\ codec.pc = "idle"
    /\ codec' = [pc |-> "written", from |-> "truncated", type |-> ty, value |-> << >>,
                 storage |-> p]
    /\ UNCHANGED << traits, route, exec, tcp, connVars, stop_lock, spc, writerVars, pushed, readerVars,
                    callVars, hook_pending, captured, hook_calls, ninstalls >>

\* what lies in memory from the start of the payload on: the payload, then
\* bytes that do not belong to it (taken to be zero)
Memory(storage) == storage \o Fill(0, 4 * (MaxLen + 2))

\* the number of bytes the cursor has advanced over when the read is done:
\* Reader::read copies [it, it + size) and adds size to it, and never
\* compares it with the end of the range
Cursor(ty, storage) == Len(Memory(storage)) - Len(read(ty, Memory(storage)).rest)

\* Reader{storage} >> target on a payload cut short. The Reader has no
\* failure path: it reads on behind the payload, which ends the process
\* (a checked iterator, an access violation) or yields what lay there
codec_read_short(crash) ==
    /\ codec.pc = "written" /\ codec.from = "truncated"
    /\ crash => Cursor(codec.type, codec.storage) > Len(codec.storage)
    /\ codec' = [pc |-> IF crash THEN "crashed" ELSE "read", from |-> codec.from,
                 type |-> codec.type, value |-> codec.value, storage |-> codec.storage,
                 target |-> read(codec.type, Memory(codec.storage)).v,
                 cursor |-> Cursor(codec.type, codec.storage)]
    /\ UNCHANGED << traits, route, exec, tcp, connVars, stop_lock, spc, writerVars, pushed, readerVars,
                    callVars, hook_pending, captured, hook_calls, ninstalls >>

CodecSteps ==
    \/ \E ty \in CodecTypes : \E v \in ValuesOf(ty), g \in StaleBytes : codec_write(ty, v, g)
    \/ \E ty \in VariantTypes : \E i \in DOMAIN ty.ts :
          \E v \in AlternativeValues(ty, i), g \in StaleBytes : codec_write(ty, v, g)
    \/ \E ty \in VariantTypes : \E p \in PeerPayloads(ty) : codec_receive(ty, p)
    \/ \E crash \in BOOLEAN : codec_read(crash)
    \/ codec.pc = "idle" /\ \E ty \in TruncatedTypes : \E p \in Truncations(ty) : codec_receive_short(ty, p)
    \/ \E crash \in BOOLEAN : codec_read_short(crash)

(* ---------------------------- tcp_transport --------------------------- *)

\* sizeof(tcp_message_header): call_id and type share one 32-bit word, then
\* the method id, then payload_size
HeaderSize == 12

\* messages written through one tcp_transport
MaxWrites == 2

\* call_type as stored in the upper two bits of the first word
TypeCode(t) ==
    CASE t = "request" -> 0 [] t = "void_request" -> 1
      [] t = "response" -> 2 [] t = "response_error" -> 3

TypeOf(code) ==
    CASE code = 0 -> "request" [] code = 1 -> "void_request"
      [] code = 2 -> "response" [] code = 3 -> "response_error"

\* the bytes of tcp_message_header{ message, payload.size() }
HeaderBytes(m) ==
    << m.call_id % 256, (m.call_id \div 256) % 256, (m.call_id \div 65536) % 256,
       (m.call_id \div 16777216) + 64 * TypeCode(m.type) >>
    \o LEBytes(m.id, 4) \o LEBytes(Len(m.payload), 4)

\* m->payload_size of the header at the front of the receive buffer
PayloadSize(buf) == ReadCount(SubSeq(buf, 9, 12))

\* message_t result{ *m, { data, data + m->payload_size } }
FrontMessage(buf) ==
    [call_id |-> buf[1] + 256 * buf[2] + 65536 * buf[3] + 16777216 * (buf[4] % 64),
     type    |-> TypeOf(buf[4] \div 64),
     id      |-> ReadCount(SubSeq(buf, 5, 8)),
     payload |-> SubSeq(buf, HeaderSize + 1, HeaderSize + PayloadSize(buf))]

\* what receive_buffer holds once the message has been taken out of it; the
\* first variant drops everything received so far
Cleared(buf, full_size) == << >>

Erased(buf, full_size) == SubSeq(buf, full_size + 1, Len(buf))

\* read() has to call read_next() again: the buffer holds no whole header,
\* or not the whole message the header announces
NeedsMore(buf) ==
    IF Len(buf) < HeaderSize THEN TRUE
    ELSE Len(buf) < HeaderSize + PayloadSize(buf)

\* messages handed to write: both bit-field limits of the first word,
\* payloads of every length up to MaxLen
TcpMessages ==
    { Msg(1, "request", mAsync, Fill(7, n)) : n \in 0..MaxLen }
    \cup { Msg(CallIdModulus - 1, "response_error", mVoid, Fill(7, n)) : n \in 0..MaxLen }

\* tcp_transport(socket): a connected pair, nothing sent yet
tcp_attach ==
    /\ tcp.pc = "idle"
    /\ tcp' = [pc |-> "open", sent |-> << >>, wr |-> None, stream |-> << >>,
               buf |-> << >>, got |-> << >>, rd |-> "idle", err |-> 0]
    /\ UNCHANGED << traits, codec, route, exec, connVars, stop_lock, spc, writerVars, pushed,
                    readerVars, callVars, hook_pending, captured, hook_calls, ninstalls >>

\* write, first half: socket->send of the header
tcp_write_header(m) ==
    /\ tcp.pc = "open" /\ tcp.wr = None /\ Len(tcp.sent) < MaxWrites
    /\ tcp' = [tcp EXCEPT !.sent = Append(@, m), !.wr = m,
                          !.stream = @ \o HeaderBytes(m)]
    /\ UNCHANGED << traits, codec, route, exec, connVars, stop_lock, spc, writerVars, pushed,
                    readerVars, callVars, hook_pending, captured, hook_calls, ninstalls >>

\* write, second half: socket->send of the payload
tcp_write_payload ==
    /\ tcp.pc = "open" /\ tcp.wr # None
    /\ tcp' = [tcp EXCEPT !.wr = None, !.stream = @ \o tcp.wr.payload]
    /\ UNCHANGED << traits, codec, route, exec, connVars, stop_lock, spc, writerVars, pushed,
                    readerVars, callVars, hook_pending, captured, hook_calls, ninstalls >>

\* read() is called
tcp_read ==
    /\ tcp.pc = "open" /\ tcp.rd = "idle"
    /\ tcp' = [tcp EXCEPT !.rd = "reading"]
    /\ UNCHANGED << traits, codec, route, exec, connVars, stop_lock, spc, writerVars, pushed,
                    readerVars, callVars, hook_pending, captured, hook_calls, ninstalls >>

\* read_next(): socket->receive returns the next n bytes of the stream
tcp_read_next(n) ==
    /\ tcp.pc = "open" /\ tcp.rd = "reading" /\ NeedsMore(tcp.buf)
    /\ n \in 1..Len(tcp.stream)
    /\ tcp' = [tcp EXCEPT !.buf = @ \o SubSeq(tcp.stream, 1, n),
                          !.stream = SubSeq(@, n + 1, Len(@))]
    /\ UNCHANGED << traits, codec, route, exec, connVars, stop_lock, spc, writerVars, pushed,
                    readerVars, callVars, hook_pending, captured, hook_calls, ninstalls >>

\* read_next(): socket->receive returns no bytes (the peer has closed after
\* everything it sent was received); throw_win32_error(WSAECONNRESET)
tcp_read_next_empty ==
    /\ tcp.pc = "open" /\ tcp.rd = "reading" /\ NeedsMore(tcp.buf)
    /\ tcp.stream = << >> /\ tcp.wr = None
    /\ tcp' = [tcp EXCEPT !.rd = "failed", !.err = E_CONNRESET, !.pc = "closed"]
    /\ UNCHANGED << traits, codec, route, exec, connVars, stop_lock, spc, writerVars, pushed,
                    readerVars, callVars, hook_pending, captured, hook_calls, ninstalls >>

\* read() returns the message at the front of the buffer and erases it
tcp_read_return ==
    /\ tcp.pc = "open" /\ tcp.rd = "reading" /\ ~NeedsMore(tcp.buf)
    /\ tcp' = [tcp EXCEPT !.got = Append(@, FrontMessage(tcp.buf)),
                          !.buf = Erased(@, HeaderSize + PayloadSize(tcp.buf)),
                          !.rd = "idle"]
    /\ UNCHANGED << traits, codec, route, exec, connVars, stop_lock, spc, writerVars, pushed,
                    readerVars, callVars, hook_pending, captured, hook_calls, ninstalls >>

TcpSteps ==
    \/ tcp_attach
    \/ tcp.pc = "open" /\ \E m \in TcpMessages : tcp_write_header(m)
    \/ tcp_write_payload
    \/ tcp_read
    \/ tcp.pc = "open" /\ \E n \in 1..(MaxWrites * (HeaderSize + MaxLen)) : tcp_read_next(n)
    \/ tcp_read_next_empty
    \/ tcp_read_return

(* --------------------------- specification ---------------------------- *)

\* steps of the connection's own tasks and of a thread inside stop
WriterSteps ==
    \/ writer_take
    \/ writer_write_ok
    \/ writer_write_fail
    \/ writer_cancelled

StopSteps(T) ==
    \/ \E t \in T : stop_begin(t)
    \/ \E t \in T : stop_cancel(t)
    \/ \E t \in T : stop_join(t)
    \/ \E t \in T : stop_finish(t)

StubSteps ==
    \/ \E c \in Calls : stub_assert(c)
    \/ \E c \in Calls : do_call_begin(c)
    \/ \E c \in Calls : do_call_register(c)
    \/ \E c \in Calls : do_call_push(c)
    \/ \E c \in Calls : do_void_call_begin(c)
    \/ \E c \in Calls : do_void_call_push(c)

HandlerSteps ==
    \E i \in Reads, o \in {"ok", "hresult", "other"} : handler_complete(i, o)

ExecuteSteps ==
    \/ \E m \in RequestMessages : reader_read(m)
    \/ \E i \in Reads : impl_returns(i)
    \/ \E i \in Reads : impl_suspends(i)

HookSteps ==
    \/ on_error
    \/ on_error_clear
    \/ \E k \in 1..MaxStoppers + 2 : hook_fire(k)

\* the whole connection: every operation, any configuration
Next ==
    \/ start
    \/ StubSteps
    \/ \E m \in InboundMessages : reader_receive(m)
    \/ reader_fail
    \/ reader_done
    \/ HandlerSteps
    \/ WriterSteps
    \/ StopSteps(Stoppers)
    \/ HookSteps
    \/ CodecSteps
    \/ RouteSteps
    \/ ExecuteSteps
    \/ TcpSteps

Spec == Init /\ [][Next]_vars

\* the serving side: requests arrive, handlers reply, one thread stops
InitServer ==
    /\ Init
    /\ last_call_id = 0
    /\ traits \in { [server |-> TRUE, client |-> FALSE, only_void |-> FALSE],
                    [server |-> FALSE, client |-> TRUE, only_void |-> FALSE] }

NextServer ==
    \/ start
    \/ \E m \in RequestMessages : reader_receive(m)
    \/ reader_fail
    \/ reader_done
    \/ HandlerSteps
    \/ WriterSteps
    \/ StopSteps({1})

SpecServer == InitServer /\ [][NextServer]_vars

\* the calling side: stubs are invoked, replies arrive, one thread stops
InitClient ==
    /\ Init
    /\ last_call_id = 0
    /\ traits = [server |-> FALSE, client |-> TRUE, only_void |-> FALSE]

NextClient ==
    \/ start
    \/ StubSteps
    \/ \E m \in ReplyMessages : reader_receive(m)
    \/ reader_fail
    \/ reader_done
    \/ WriterSteps
    \/ StopSteps({1})

SpecClient == InitClient /\ [][NextClient]_vars

\* the calling side while replies arrive: awaited calls, the reader, the
\* writer, one thread stops
NextReplies ==
    \/ start
    \/ \E c \in Calls : do_call_begin(c)
    \/ \E c \in Calls : do_call_register(c)
    \/ \E c \in Calls : do_call_push(c)
    \/ \E m \in ReplyMessages : reader_receive(m)
    \/ reader_done
    \/ writer_take
    \/ writer_write_ok
    \/ writer_cancelled
    \/ StopSteps({1})

SpecReplies == InitClient /\ [][NextReplies]_vars

\* awaited calls issued on the Running connection only, replies, transport
\* failures, and one thread that stops the Running connection
NextCallStop ==
    \/ start
    \/ running /\ \E c \in Calls : do_call_begin(c)
    \/ \E c \in Calls : do_call_register(c)
    \/ \E c \in Calls : do_call_push(c)
    \/ \E m \in ReplyMessages : reader_receive(m)
    \/ reader_fail
    \/ reader_done
    \/ WriterSteps
    \/ running /\ StopSteps({1})

SpecCallStop == InitClient /\ [][NextCallStop]_vars

\* the same when the user does call stop: the tasks of the connection, a
\* stub that has begun and a thread inside stop keep running, a read
\* pending on a cancelled scope fails, and the stopping thread sooner or
\* later enters stop
FairSpecCallStop ==
    /\ SpecCallStop
    /\ WF_vars(reader_done)
    /\ WF_vars(reader_fail /\ cancelled)
    /\ WF_vars(WriterSteps)
    /\ \A c \in Calls : WF_vars(do_call_register(c))
    /\ \A c \in Calls : WF_vars(do_call_push(c))
    /\ WF_vars(running /\ stop_begin(1))
    /\ WF_vars(stop_cancel(1) \/ stop_join(1) \/ stop_finish(1))

\* the calling side when the transport fails and nobody calls stop
NextFailure ==
    \/ start
    \/ StubSteps
    \/ reader_fail
    \/ reader_done
    \/ WriterSteps

SpecFailure == InitClient /\ [][NextFailure]_vars

\* both directions on one connection: stubs and request handlers share the writer
InitDuplex ==
    /\ Init
    /\ last_call_id = 0
    /\ traits = [server |-> TRUE, client |-> TRUE, only_void |-> FALSE]

NextDuplex ==
    \/ start
    \/ \E c \in Calls : do_void_call_begin(c)
    \/ \E c \in Calls : do_void_call_push(c)
    \/ reader_receive(Msg(0, "request", mAsync, ArgsPayload))
    \/ reader_done
    \/ \E i \in Reads, o \in {"ok", "hresult"} : handler_complete(i, o)
    \/ writer_take
    \/ writer_write_ok
    \/ writer_write_fail

SpecDuplex == InitDuplex /\ [][NextDuplex]_vars

\* both roles of one connection in an exchange that ends in an error: as a
\* server it receives requests (for a method it has, for one it has not), as
\* a client it receives the error replies such requests are answered with
ExchangeMessages ==
    { Msg(0, "request", m, ArgsPayload) : m \in {mAsync, mUnknown} }
    \cup { Msg(i, "response_error", mAsync, HresultBytes(hr)) :
              i \in PeerIds, hr \in {E_NOTIMPL, ImplError, E_FAIL} }

NextExchange ==
    \/ start
    \/ do_call_begin(1)
    \/ do_call_register(1)
    \/ do_call_push(1)
    \/ \E m \in ExchangeMessages : reader_receive(m)
    \/ reader_fail
    \/ reader_done
    \/ HandlerSteps
    \/ writer_take
    \/ writer_write_ok

SpecExchange == InitDuplex /\ [][NextExchange]_vars

\* the calling side when the call-id counter passes 2^30: the peer echoes
\* the 30-bit ids it finds in the requests
InitWrap ==
    /\ Init
    /\ traits = [server |-> FALSE, client |-> TRUE, only_void |-> FALSE]
    /\ last_call_id = CallIdModulus - 1

WrapReplies ==
    { Msg(i, "response", mAsync, << 7 >>) : i \in { CallIdModulus - 1, CallIdModulus, CallIdModulus + 1 } }

NextWrap ==
    \/ start
    \/ \E c \in Calls : do_call_begin(c)
    \/ \E c \in Calls : do_call_register(c)
    \/ \E c \in Calls : do_call_push(c)
    \/ \E m \in WrapReplies : reader_receive(m)
    \/ reader_fail
    \/ reader_done
    \/ writer_take
    \/ writer_write_ok
    \/ writer_cancelled

SpecWrap == InitWrap /\ [][NextWrap]_vars

\* shutting down a serving connection: requests for the async method are
\* in flight, replies are being written, one thread stops
InitShutdown ==
    /\ Init
    /\ traits = [server |-> TRUE, client |-> FALSE, only_void |-> FALSE]
    /\ last_call_id = 0

NextShutdown ==
    \/ start
    \/ reader_receive(Msg(0, "request", mAsync, ArgsPayload))
    \/ reader_fail
    \/ reader_done
    \/ \E i \in Reads, o \in {"ok", "hresult"} : handler_complete(i, o)
    \/ WriterSteps
    \/ StopSteps({1})

SpecShutdown == InitShutdown /\ [][NextShutdown]_vars

\* a serving connection one of whose implementations calls stop, next to a
\* thread of the user that calls stop
NextSelfStop ==
    \/ start
    \/ reader_receive(Msg(0, "request", mAsync, ArgsPayload))
    \/ reader_fail
    \/ reader_done
    \/ handler_stop_call(StoppingHandler, HandlerThread)
    \/ \E i \in Reads, o \in {"ok", "hresult"} : NotInStop(i) /\ handler_complete(i, o)
    \/ WriterSteps
    \/ \E t \in Stoppers : (t = HandlerThread => spc[t] = "called") /\ stop_begin(t)
    \/ \E t \in Stoppers : stop_cancel(t)
    \/ \E t \in Stoppers : stop_join(t)
    \/ \E t \in Stoppers : stop_finish(t)

SpecSelfStop == InitShutdown /\ [][NextSelfStop]_vars

\* the single-marshaller configurations side by side: interfaces with and
\* without value-returning methods, fire-and-forget calls, requests that
\* are answered without suspending
InitConfig ==
    /\ Init
    /\ ~(traits.server /\ traits.client)
    /\ last_call_id = 0

ConfigMessages ==
    { Msg(0, t, m, ArgsPayload) : t \in {"request", "void_request"}, m \in {mVoid, mUnknown} }

NextConfig ==
    \/ start
    \/ do_void_call_begin(1)
    \/ do_void_call_push(1)
    \/ \E m \in ConfigMessages : reader_receive(m)
    \/ reader_fail
    \/ reader_done
    \/ WriterSteps
    \/ StopSteps({1})

SpecConfig == InitConfig /\ [][NextConfig]_vars

\* the serving side with the reader followed through execute_request:
\* requests of both shapes for methods of both shapes, one thread stops
InitExecute ==
    /\ Init
    /\ last_call_id = 0
    /\ traits = [server |-> TRUE, client |-> FALSE, only_void |-> FALSE]

ExecuteMessages ==
    { Msg(0, t, m, ArgsPayload) : t \in {"request", "void_request"}, m \in {mAsync, mVoid} }

NextExecute ==
    \/ start
    \/ \E m \in ExecuteMessages : reader_read(m)
    \/ \E i \in Reads : impl_returns(i)
    \/ \E i \in Reads : impl_suspends(i)
    \/ reader_fail
    \/ reader_done
    \/ HandlerSteps
    \/ WriterSteps
    \/ StopSteps({1})

SpecExecute == InitExecute /\ [][NextExecute]_vars

\* one awaited call and error replies of every size
ErrorPayloads == { << >>, << 7 >>, HresultBytes(E_NOTIMPL), HresultBytes(E_NOTIMPL) \o << 7 >> }

ErrorReplies == { Msg(i, "response_error", mAsync, p) : i \in PeerIds, p \in ErrorPayloads }

NextErrorReplies ==
    \/ start
    \/ do_call_begin(1)
    \/ do_call_register(1)
    \/ do_call_push(1)
    \/ \E m \in ErrorReplies : reader_receive(m)
    \/ reader_fail
    \/ reader_done
    \/ WriterSteps

SpecErrorReplies == InitClient /\ [][NextErrorReplies]_vars

\* method routing on its own: two declarations of an interface, one request
InitRoute ==
    /\ Init
    /\ traits = [server |-> TRUE, client |-> TRUE, only_void |-> FALSE]
    /\ last_call_id = 0

NextRoute == RouteSteps

SpecRoute == InitRoute /\ [][NextRoute]_vars

\* a tcp_transport pair on its own: one side writes, the other reads
InitTcp ==
    /\ Init
    /\ traits = [server |-> TRUE, client |-> TRUE, only_void |-> FALSE]
    /\ last_call_id = 0

NextTcp == TcpSteps

SpecTcp == InitTcp /\ [][NextTcp]_vars

\* the codec on its own: one value is written, then read into a fresh target
InitCodec ==
    /\ Init
    /\ traits = [server |-> TRUE, client |-> TRUE, only_void |-> FALSE]
    /\ last_call_id = 0

NextCodec == CodecSteps

SpecCodec == InitCodec /\ [][NextCodec]_vars

\* the life cycle: concurrent stops, transport failures and the error hook
InitLifecycle ==
    /\ Init
    /\ last_call_id = 0
    /\ traits = [server |-> TRUE, client |-> TRUE, only_void |-> FALSE]

NextLifecycle ==
    \/ start
    \/ stub_assert(1)
    \/ do_call_begin(1)
    \/ do_call_register(1)
    \/ do_call_push(1)
    \/ reader_fail
    \/ reader_done
    \/ WriterSteps
    \/ StopSteps(Stoppers)
    \/ HookSteps

SpecLifecycle == InitLifecycle /\ [][NextLifecycle]_vars

(* ------------------------------- claims ------------------------------- *)

\* positions in `pushed` of the replies the handler of the i-th received
\* message has enqueued
RepliesOf(i) ==
    { k \in 1..Len(pushed) : /\ pushed[k].by[1] = "handler" /\ pushed[k].by[2] = i
                             /\ pushed[k].msg.type \in {"response", "response_error"} }

\* C1: for every Request received, the request handler enqueues at most one
\* reply (Response or ResponseError) carrying that request's call-id, on every
\* path through execute_request.
C1_AtMostOneReplyPerRequest ==
    \A i \in Reads :
        /\ Cardinality({ k \in RepliesOf(i) : pushed[k].by[4] = "request" }) <= 1
        /\ \A k \in RepliesOf(i) : pushed[k].msg.call_id = pushed[k].by[3]

\* C2: for every VoidRequest received no reply of any kind is ever enqueued,
\* with or without a server marshaller, whatever the method id.
C2_NoReplyToVoidRequest ==
    \A k \in 1..Len(pushed) : pushed[k].by[4] # "void_request"

\* C2 witness: the reader has processed a VoidRequest on a connection whose
\* scope is not cancelled, and another message after it
C2_Witness_VoidRequestHandled ==
    /\ nreads >= 1 /\ message # None /\ message.type = "void_request"
    /\ ~cancelled /\ rpc = "reading"

\* the calling side under the scheduling the runtime guarantees: the tasks of
\* the connection, a stub that has begun and a thread inside stop keep
\* running, and a read pending on a cancelled scope fails; nothing obliges the
\* user to call stop or a stub, or the peer to send
FairSpecClient ==
    /\ SpecClient
    /\ WF_vars(reader_done)
    /\ WF_vars(reader_fail /\ cancelled)
    /\ WF_vars(WriterSteps)
    /\ \A c \in Calls : WF_vars(do_call_register(c))
    /\ \A c \in Calls : WF_vars(do_call_push(c))
    /\ \A c \in Calls : WF_vars(do_void_call_push(c))
    /\ WF_vars(stop_cancel(1) \/ stop_join(1) \/ stop_finish(1))

\* C3: the pending-call slot of an awaited call is completed at most once;
\* its entry leaves the pending-call table when it is completed (by the
\* reader's matching reply or by stop) and a later reply with the same
\* call-id completes nothing.
C3_SlotCompletedAtMostOnce ==
    \A c \in Calls :
        /\ ncompl[c] <= 1
        /\ ncompl[c] = 1 => \A k \in DOMAIN completions : completions[k] # c

\* C3 witness: a call was completed by a reply and a second reply with the
\* same call-id (an error this time) has been read since
C3_Witness_SecondReplyIgnored ==
    \E c \in Calls :
        /\ ncompl[c] = 1 /\ cres[c].kind = "value"
        /\ nreads = 2 /\ message.type = "response_error"
        /\ message.call_id = cid[c]

\* C4: a caller's slot is completed by the reader only with a reply whose
\* call-id is the id allocated to that call, and with that reply's payload;
\* a reply whose call-id matches no pending entry completes no caller and
\* leaves the pending-call table unchanged.
C4_CompletedOnlyByMatchingReply ==
    [][ /\ \A c \in Calls :
             (cres'[c] # cres[c] /\ cres'[c].kind \in {"value", "error"}) =>
                 /\ nreads' = nreads + 1
                 /\ message'.call_id = cid[c]
                 /\ message'.type = "response" => cres'[c] = Value(message'.payload)
                 /\ message'.type = "response_error" => cres'[c].kind = "error"
        /\ (nreads' = nreads + 1 /\ message'.call_id \notin DOMAIN completions) =>
               UNCHANGED << completions, cres, ncompl >>
      ]_vars

\* C4 witness: two awaited calls were pending at once and the one issued
\* later has been completed by its reply while the earlier one still waits
C4_Witness_OutOfOrderReply ==
    \E c, d \in Calls :
        /\ ckind[c] = "call" /\ ckind[d] = "call" /\ cid[c] < cid[d]
        /\ cpc[c] = "awaiting" /\ cres[d].kind = "value" /\ cpc[d] = "done"

\* a call to stop that found the connection running has returned
StopReturned == \E t \in Stoppers : spc[t] = "done"

\* C5: after stop on a Running connection the pending-call table is empty and
\* every call that was pending has observed one completion, a cancellation,
\* under any interleaving of stub calls with stop.
C5_AfterStopTableDrained ==
    StopReturned =>
        /\ completions = << >>
        /\ \A c \in Calls : cpc[c] \in {"registered", "awaiting"} => ncompl[c] = 1
        /\ \A c \in Calls : (ncompl[c] = 1 /\ cres[c].kind \notin {"value", "error"}) =>
               cres[c] = Cancelled

\* C6: a stub invoked after stop has returned fails with a cancellation error.
C6_StubAfterStopCancelled ==
    [][ \A c \in Calls :
            (cpc[c] = "idle" /\ cpc'[c] # "idle" /\ StopReturned) => cres'[c] = Cancelled
      ]_vars

\* the scope was cancelled by a transport failure: no thread has called stop
FailedBeforeStop == cancelled /\ \A t \in Stoppers : spc[t] = "idle"

\* C7: if the transport fails while an awaited call is pending, that call
\* eventually completes with a cancellation error.
C7_PendingCallCancelledOnFailure ==
    \A c \in Calls :
        (FailedBeforeStop /\ cpc[c] = "awaiting") ~> (cres[c] = Cancelled)

\* C8: after a transport failure has cancelled the scope and before stop is
\* called, every stub call fails with a cancellation error: an awaited call
\* registers no pending entry and enqueues no Request, a fire-and-forget call
\* enqueues no VoidRequest.
C8_StubAfterFailureCancelled ==
    [][ \A c \in Calls :
            (cpc[c] = "idle" /\ cpc'[c] # "idle" /\ FailedBeforeStop) =>
                /\ cres'[c] = Cancelled /\ cpc'[c] = "done"
                /\ UNCHANGED << completions, write_queue, pushed, last_call_id >>
      ]_vars

\* C8 witness: after a transport failure and before any stop, an awaited call
\* and a fire-and-forget call have both failed with cancellation
C8_Witness_BothStubsCancelled ==
    \E c, d \in Calls :
        /\ FailedBeforeStop
        /\ ckind[c] = "call" /\ cres[c] = Cancelled /\ ncompl[c] = 0
        /\ ckind[d] = "void" /\ cres[d] = Cancelled

\* a thread inside stop, between acquiring stop_lock and releasing it
InStop(u) == spc[u] \in {"cancel", "join", "release"}

\* thread t's call to stop takes effect in this step, and another thread's call
\* that found the connection running has begun before it
SecondStop(t) ==
    /\ spc[t] = "idle" /\ spc'[t] # "idle"
    /\ \E u \in Stoppers \ {t} : InStop(u) \/ spc[u] = "done"

\* C9: stop is idempotent: a second call to stop, sequential or concurrent,
\* changes no connection state and reports nothing to the error hook, and it
\* gets past stop_lock only when the first call has completed.
C9_SecondStopIsNoop ==
    [][ \A t \in Stoppers :
            SecondStop(t) =>
                /\ \A u \in Stoppers : ~InStop(u)
                /\ spc'[t] = "noop"
                /\ UNCHANGED << running, transport, cancelled, completions, write_queue,
                                queue_cancelled, stop_lock, wpc, rpc, error_handler,
                                last_error, hook_pending, hook_calls >>
      ]_vars

\* C9 witness: one thread has stopped the running connection and another
\* thread's call to stop has returned after it without doing anything
C9_Witness_SecondStopReturned ==
    \E t, u \in Stoppers : spc[t] = "done" /\ spc[u] = "noop"

\* C10: messages are handed to transport.write in exactly the order they were
\* pushed on the write queue, and a write is started only after the previous
\* one has completed, whatever the interleaving of stubs and request handlers.
C10_WritesInQueueOrder ==
    /\ Len(wire) + Len(write_queue) = Len(pushed)
    /\ \A k \in 1..Len(wire) : wire[k] = pushed[k].msg
    /\ \A k \in 1..Len(write_queue) : write_queue[k] = pushed[Len(wire) + k].msg
    /\ writes_active <= 1

\* C10 witness: at least two messages have been handed to transport.write,
\* one pushed by a stub and one pushed by a request handler
C10_Witness_StubAndHandlerWritten ==
    \E j, k \in 1..Len(wire) :
        /\ pushed[j].by[1] = "call" /\ pushed[k].by[1] = "handler"

(* ----------------------------- error hook ----------------------------- *)

\* positions of hook_calls / hook_pending that belong to the handler
\* installed by the f-th call to on_error
InvocationsOf(f) == { k \in DOMAIN hook_calls : hook_calls[k].f = f }
PostedFor(f) == { k \in DOMAIN hook_pending : hook_pending[k].f = f }

\* C11: a handler installed by one call to on_error is invoked at most once:
\* its invocations so far, those already posted to the background executor
\* and the one it may still get while installed never add up to more than one.
C11_HandlerInvokedAtMostOnce ==
    \A f \in 1..MaxInstalls :
        Cardinality(InvocationsOf(f)) + Cardinality(PostedFor(f))
            + (IF error_handler = f THEN 1 ELSE 0) <= 1

\* C11 witness: the first handler was invoked on the background executor
\* for one error, and an error captured after that invoked nothing
C11_Witness_LaterErrorNotReported ==
    /\ Len(hook_calls) = 1 /\ hook_calls[1].f = 1
    /\ hook_calls[1] = [hr |-> captured[1].hr, state |-> captured[1].state, f |-> 1]
    /\ Len(captured) >= 2 /\ hook_pending = << >>
    /\ last_error # None

\* the error captured most recently
LastCaptured == captured[Len(captured)]

\* C12: an error captured while no handler is installed is recorded; the next
\* call to on_error(f) invokes f immediately with that error's code and
\* phase and clears the record, so that a further installation fires nothing
\* for it: an installation that finds no record only installs.
C12_RecordedErrorFiresOnInstall ==
    [][ /\ (Len(captured') = Len(captured) + 1 /\ error_handler = 0) =>
               last_error' = [hr |-> captured'[Len(captured')].hr,
                              state |-> captured'[Len(captured')].state]
        /\ (ninstalls' = ninstalls + 1 /\ last_error # None) =>
               /\ hook_calls' = Append(hook_calls, [hr |-> LastCaptured.hr,
                                                    state |-> LastCaptured.state,
                                                    f |-> ninstalls'])
               /\ last_error' = None
               /\ UNCHANGED << error_handler, hook_pending >>
        /\ (ninstalls' = ninstalls + 1 /\ last_error = None) =>
               /\ error_handler' = ninstalls'
               /\ UNCHANGED << hook_calls, hook_pending, last_error >>
      ]_vars

\* C12 witness: an error was captured with no handler installed, the first
\* installation was invoked with it at once, and the second installation
\* has installed its handler without invoking it
C12_Witness_SecondInstallSilent ==
    /\ Len(captured) = 1 /\ ninstalls = 2
    /\ hook_calls = << [hr |-> captured[1].hr, state |-> captured[1].state, f |-> 1] >>
    /\ error_handler = 2 /\ last_error = None

\* the k-th captured error has reached a handler, is on its way to one on
\* the background executor, or is recorded for the next handler installed
Reported(k) ==
    LET err == captured[k] IN
    \/ \E j \in DOMAIN hook_calls :
           hook_calls[j].hr = err.hr /\ hook_calls[j].state = err.state
    \/ \E j \in DOMAIN hook_pending :
           hook_pending[j].hr = err.hr /\ hook_pending[j].state = err.state
    \/ last_error = err

\* C13: every transport failure captured by the reader (phase receive) or
\* the writer (phase send) is reported to the error hook, to the installed
\* handler or else to the next handler installed: none is lost.
C13_NoTransportFailureLost ==
    \A k \in DOMAIN captured :
        captured[k].state \in {"receive", "send"} => Reported(k)

\* the error stop reports
AbortOnStop == [hr |-> E_ABORT, state |-> "stop"]

\* C24: stop on a Running connection hands an Abort error with phase Stop to
\* the error hook in a step that leaves the scope as it is, and cancels the
\* scope only afterwards: the installed handler, if there is one, is taken
\* out and posted for invocation with that error, otherwise the error is
\* recorded for the next handler installed. stop on a connection that is
\* not Running reports nothing.
C24_StopReportsAbortFirst ==
    [][ \A t \in Stoppers :
          /\ (spc[t] = "idle" /\ spc'[t] = "cancel") =>
                /\ running
                /\ captured' = Append(captured, AbortOnStop)
                /\ UNCHANGED << cancelled, hook_calls >>
                /\ IF error_handler # 0
                   THEN /\ hook_pending' = Append(hook_pending,
                                [hr |-> E_ABORT, state |-> "stop", f |-> error_handler])
                        /\ error_handler' = 0
                        /\ UNCHANGED last_error
                   ELSE /\ last_error' = AbortOnStop
                        /\ UNCHANGED << error_handler, hook_pending >>
          /\ (spc[t] = "cancel" /\ spc'[t] = "join") =>
                /\ captured # << >> /\ \E k \in DOMAIN captured : captured[k] = AbortOnStop
                /\ cancelled'
          /\ (spc[t] = "idle" /\ spc'[t] \in {"noop", "noop_idle"}) =>
                /\ ~running
                /\ UNCHANGED << captured, last_error, error_handler, hook_pending, hook_calls >>
      ]_vars

\* C24 witness: the handler installed before stop was invoked with the Abort
\* of the stop that found the connection Running, and a later stop, which
\* found it Stopped, reported nothing
C24_Witness_AbortReachedHandler ==
    /\ captured # << >> /\ captured[1] = AbortOnStop
    /\ hook_calls # << >> /\ hook_calls[1] = [hr |-> E_ABORT, state |-> "stop", f |-> 1]
    /\ \A k \in DOMAIN captured : k > 1 => captured[k] # AbortOnStop
    /\ \E t, u \in Stoppers : spc[t] = "done" /\ spc[u] = "noop"

\* a transport failure has been captured by the reader or the writer
FailureCaptured ==
    \E k \in DOMAIN captured :
        captured[k].state \in {"receive", "send"} /\ captured[k].hr = E_CONNRESET

Receives == nreads' = nreads + 1

\* the error reply to request m that carries code hr
ErrorReplyTo(m, hr) == Msg(m.call_id, "response_error", m.id, HresultBytes(hr))

\* the handler of the message received in this step pushes exactly ms
HandlerPushes(ms) ==
    pushed' = pushed \o Tagged(ms, << "handler", nreads', message'.call_id, message'.type >>)

\* C14: a Request whose method id is absent from the server's dispatch table
\* is answered (while the scope is not cancelled) with exactly one
\* ResponseError whose payload is the four bytes of E_NOTIMPL, and a caller
\* whose pending call receives such a reply completes with error E_NOTIMPL.
C14_UnknownMethodNotImplemented ==
    [][ /\ ( /\ Receives /\ traits.server /\ ~cancelled
             /\ message'.type = "request" /\ message'.id \notin MethodTable ) =>
               /\ HandlerPushes(<< ErrorReplyTo(message', E_NOTIMPL) >>)
               /\ Len(ErrorReplyTo(message', E_NOTIMPL).payload) = 4
        /\ ( /\ Receives /\ message' = ErrorReplyTo(message', E_NOTIMPL)
             /\ message'.call_id \in DOMAIN completions ) =>
               LET c == completions[message'.call_id] IN
               /\ cres'[c] = Error(E_NOTIMPL)
               /\ ncompl'[c] = ncompl[c] + 1
               /\ message'.call_id \notin DOMAIN completions'
      ]_vars

\* C14 witness: the connection has answered a request for an unknown method
\* with the E_NOTIMPL reply, and its own awaited call has completed with
\* E_NOTIMPL on receiving such a reply
C14_Witness_NotImplementedBothWays ==
    /\ \E k \in DOMAIN pushed :
           /\ pushed[k].by[1] = "handler"
           /\ pushed[k].msg = Msg(0, "response_error", mUnknown, HresultBytes(E_NOTIMPL))
    /\ cpc[1] = "done" /\ cres[1] = Error(E_NOTIMPL) /\ ncompl[1] = 1

\* the code a failing implementation is reported with: its own code when it
\* raised an hresult_error, the generic failure code otherwise
FailureCode(outcome) == IF outcome = "hresult" THEN ImplError ELSE E_FAIL

\* C15: when the implementation of an async method fails with code c (the
\* generic failure code when it raised no error code) while the scope is not
\* cancelled, exactly one ResponseError with the four bytes of c is pushed
\* for that request; the connection goes on: its scope stays un-cancelled
\* and the reader keeps reading; a caller whose pending call receives that
\* reply completes with error c.
C15_ImplementationFailureReplied ==
    [][ /\ \A i \in Reads, o \in {"hresult", "other"} :
               (handler_complete(i, o) /\ ~cancelled) =>
                   /\ pushed' = Append(pushed,
                          [msg |-> ErrorReplyTo(hmsg[i], FailureCode(o)),
                           by |-> << "handler", i, hmsg[i].call_id, "request" >>])
                   /\ Len(ErrorReplyTo(hmsg[i], FailureCode(o)).payload) = 4
                   /\ ~cancelled' /\ running' /\ transport'
                   /\ rpc' = rpc /\ wpc' = wpc
        /\ \A hr \in {ImplError, E_FAIL} :
               ( /\ Receives /\ message' = ErrorReplyTo(message', hr)
                 /\ message'.call_id \in DOMAIN completions ) =>
                   cres'[completions[message'.call_id]] = Error(hr)
      ]_vars

\* C15 witness: the implementation failed for the first request, its error
\* reply was pushed, a request received after that was answered too, the
\* scope is not cancelled, and the connection's own call has completed with
\* the implementation's error code
C15_Witness_ServedAfterFailure ==
    /\ Len(pushed) = 2 /\ ~cancelled /\ rpc = "reading"
    /\ pushed[1].by[2] = 1 /\ pushed[1].msg = Msg(0, "response_error", mAsync, HresultBytes(ImplError))
    /\ pushed[2].by[2] = 2 /\ pushed[2].by[1] = "handler"
    /\ pushed[2].msg.id = mUnknown

(* ------------------------------ call ids ------------------------------ *)

\* C16: calls go on working when the call-id counter passes 2^30: a call
\* whose counter value is 2^30 or more is sent with the value reduced to 30
\* bits, and the reply that carries that reduced id completes it.
C16_CallsWorkPastWrap ==
    [][ \A c \in Calls :
          /\ (cpc[c] = "registered" /\ cpc'[c] # "registered" /\ Len(pushed') = Len(pushed) + 1) =>
                 pushed'[Len(pushed')].msg.call_id = cid[c] % CallIdModulus
          /\ ( /\ Receives /\ cpc[c] = "awaiting" /\ cid[c] >= CallIdModulus
               /\ message'.call_id = cid[c] % CallIdModulus ) =>
                 /\ cres'[c] = ReplyResult(message')
                 /\ cpc'[c] = "done"
      ]_vars

\* client thread c has obtained a counter value from last_call_id
Allocated(c) == ckind[c] # "none" /\ ~(cres[c] = Cancelled /\ ncompl[c] = 0)

\* C19: call-id allocation is atomic: stub invocations running concurrently,
\* awaited and fire-and-forget alike, never obtain the same counter value,
\* the counter has advanced once per allocation, and every awaited call that
\* is pending holds its own key of the pending-call table (fewer than 2^30
\* calls having been issued).
C19_CallIdsUnique ==
    /\ \A c, d \in Calls : (c # d /\ Allocated(c) /\ Allocated(d)) => cid[c] # cid[d]
    /\ last_call_id = Cardinality({ c \in Calls : Allocated(c) })
    /\ \A c \in Calls : Allocated(c) => cid[c] < last_call_id
    /\ \A c \in Calls : (cpc[c] \in {"registered", "awaiting"} /\ ncompl[c] = 0) =>
           /\ cid[c] \in DOMAIN completions
           /\ completions[cid[c]] = c
    /\ \A k \in DOMAIN completions : cid[completions[k]] = k

\* C19 witness: two awaited calls issued concurrently (both had obtained
\* their ids before either registered) are pending at once under two keys
C19_Witness_TwoPendingKeys ==
    \E c, d \in Calls :
        /\ c # d /\ cpc[c] = "awaiting" /\ cpc[d] = "awaiting"
        /\ cid[c] < cid[d]
        /\ pushed[1].by[2] = d
        /\ DOMAIN completions = { cid[c], cid[d] }

(* -------------------------- request handlers -------------------------- *)

\* request handlers suspended in the user's implementation
RunningHandlers == { i \in Reads : hpc[i] = "running" }

\* C17: no request handler outlives the connection: the reader task does
\* not finish while a handler of an async-returning request is running (its
\* counter is one for the reading reader plus one per running handler), so
\* when stop has returned every handler the reader spawned has finished.
C17_NoHandlerOutlivesConnection ==
    /\ rpc \in {"reading", "drain", "done"} =>
           outstanding = Cardinality(RunningHandlers) + (IF rpc = "reading" THEN 1 ELSE 0)
    /\ finished <=> (rpc \in {"drain", "done"} /\ RunningHandlers = {})
    /\ rpc = "done" => RunningHandlers = {}
    /\ StopReturned => RunningHandlers = {}

\* C17 witness: stop has returned on a connection one of whose handlers
\* completed successfully only after the scope had been cancelled (its
\* Response is the only reply it pushed)
C17_Witness_StopWaitedForHandler ==
    /\ StopReturned
    /\ \E i \in Reads :
           /\ RepliesOf(i) # {}
           /\ \A k \in RepliesOf(i) : pushed[k].msg.type = "response"

(* ------------------------------ shutdown ------------------------------ *)

\* the serving side under the scheduling stop relies on: a read pending on
\* a cancelled scope fails, a write in progress completes or fails, every
\* running implementation completes, the connection's tasks and the thread
\* inside stop keep running; nothing obliges the peer to send or the user to
\* call stop
FairSpecShutdown ==
    /\ SpecShutdown
    /\ WF_vars(reader_fail /\ cancelled)
    /\ WF_vars(reader_done)
    /\ WF_vars(\E i \in Reads, o \in {"ok", "hresult"} : handler_complete(i, o))
    /\ WF_vars(WriterSteps)
    /\ WF_vars(stop_cancel(1) \/ stop_join(1) \/ stop_finish(1))

\* C18: stop on a Running connection eventually returns: cancelling the
\* scope unblocks the reader and the writer waiting on the write queue, both
\* tasks end, and stop goes on to drain the table and release the lock.
C18_StopEventuallyReturns ==
    \A t \in Stoppers : (spc[t] = "cancel") ~> (spc[t] = "done")

\* C18 witness: stop has returned after waiting for a writer that was idle
\* on the write queue and a reader that had a handler in flight when the
\* scope was cancelled
C18_Witness_StopReturnedAfterJoin ==
    /\ spc[1] = "done" /\ wpc = "done" /\ rpc = "done" /\ ~running
    /\ \E i \in Reads :
           /\ RepliesOf(i) # {}
           /\ \A k \in RepliesOf(i) : pushed[k].msg.type = "response"
    /\ captured = << [hr |-> E_ABORT, state |-> "stop"], [hr |-> E_CANCELLED, state |-> "receive"] >>

(* -------------------------------- codec ------------------------------- *)

\* C20: codec round trip: for every value v of a supported type, reading
\* the bytes written for v into a fresh target yields a value equal to v and
\* leaves no byte behind the cursor.
C20_CodecRoundTrip ==
    codec.pc \in {"read", "crashed"} /\ codec.from = "writer" =>
        /\ codec.pc = "read"
        /\ codec.target = codec.value
        /\ codec.remaining = << >>

\* the 16-bit index at the front of the payload names no alternative
TagOutOfRange ==
    /\ codec.type.k = "variant"
    /\ ReadIndex(codec.storage) >= Len(codec.type.ts)

\* C21: decoding a tagged union whose encoded 16-bit tag index is not less
\* than the number of alternatives is an error: the Reader reports a failure
\* instead of producing a value (or ending the process).
C21_TagOutOfRangeFails ==
    codec.pc # "idle" /\ TagOutOfRange => codec.pc \in {"written", "failed"}

(* --------------------------- configurations --------------------------- *)

\* C22: on a client-only connection whose interface has only fire-and-forget
\* methods, the connection never calls transport.read, from start until
\* stop: the reader task is never inside a read and no read ever returns.
C22_VoidClientNeverReads ==
    ~traits.server /\ traits.only_void => rpc \in {"none", "done"} /\ nreads = 0

\* a fire-and-forget call went out and the connection was stopped afterwards
C22_Witness_VoidClientStopped ==
    /\ ~traits.server /\ traits.only_void
    /\ wire # << >> /\ spc[1] = "done"

\* C23: on a server-only connection whose interface has only fire-and-forget
\* methods, the connection never calls transport.write, whatever messages
\* it receives.
C23_VoidServerNeverWrites ==
    ~traits.client /\ traits.only_void => wire = << >> /\ writes_active = 0

\* the peer sent a Request, whose reply sits in the queue for good
C23_Witness_ReplyQueuedNotWritten ==
    /\ ~traits.client /\ traits.only_void
    /\ nreads > 0 /\ write_queue # << >> /\ spc[1] = "done"

\* C26: on a connection without a server marshaller whose reader runs, a
\* Request received while the scope is not cancelled is answered with exactly
\* one ResponseError carrying the four bytes of E_INVALIDARG and the
\* request's call-id and method id; a VoidRequest is dropped: nothing is
\* enqueued for it.
C26_RequestAtClientInvalidArg ==
    [][ /\ (Receives /\ ~traits.server /\ ~cancelled /\ message'.type = "request") =>
              /\ HandlerPushes(<< ErrorReplyTo(message', E_INVALIDARG) >>)
              /\ write_queue' = Append(write_queue, ErrorReplyTo(message', E_INVALIDARG))
              /\ ReadHresult(ErrorReplyTo(message', E_INVALIDARG).payload) = E_INVALIDARG
        /\ (Receives /\ ~traits.server /\ message'.type = "void_request") =>
              UNCHANGED << pushed, write_queue >>
      ]_vars

\* C26 witness: a client-only connection has received a VoidRequest, for
\* which nothing was enqueued, and a Request, whose E_INVALIDARG reply has
\* gone out through transport.write
C26_Witness_InvalidArgSent ==
    /\ ~traits.server /\ nreads = 2
    /\ Len(pushed) = 1 /\ pushed[1].by[1] = "handler"
    /\ wire = << Msg(0, "response_error", pushed[1].msg.id, HresultBytes(E_INVALIDARG)) >>
    /\ message.type = "void_request"

\* C28: when the scope is cancelled while a request handler is between
\* receiving a Request and enqueuing its reply, the handler enqueues no reply
\* for that request, neither a Response nor a ResponseError: a handler that
\* ends on a cancelled scope, or starts on one, leaves the queue as it is.
C28_NoReplyOnceCancelled ==
    [][ /\ (cancelled /\ \E i \in Reads : hpc[i] = "running" /\ hpc'[i] = "done") =>
              UNCHANGED << pushed, write_queue >>
        /\ (cancelled /\ Receives /\ message'.type = "request") =>
              UNCHANGED << pushed, write_queue >>
      ]_vars

(* ---------------------------- error replies --------------------------- *)

\* C27: a ResponseError whose payload is not exactly four bytes completes the
\* matching pending call with the generic failure code E_FAIL, once, and
\* takes its entry out of the table; in that step the reader captures no
\* error and does not cancel the scope, and it stays in its loop, ready to
\* read the next message.
C27_MalformedErrorIsGenericFailure ==
    [][ ( /\ Receives /\ message'.type = "response_error" /\ Len(message'.payload) # 4
          /\ message'.call_id \in DOMAIN completions ) =>
            LET c == completions[message'.call_id] IN
            /\ cres'[c] = Error(E_FAIL)
            /\ ncompl'[c] = ncompl[c] + 1
            /\ message'.call_id \notin DOMAIN completions'
            /\ UNCHANGED << cancelled, captured, last_error, hook_pending >>
            /\ ~cancelled => rpc' = "reading"
      ]_vars

\* C27 witness: the call was completed with E_FAIL by an error reply whose
\* payload has not four bytes, and the reader has read on since on a scope
\* that is not cancelled
C27_Witness_ReadOnAfterMalformed ==
    /\ cres[1] = Error(E_FAIL) /\ ncompl[1] = 1
    /\ nreads = 2 /\ rpc = "reading" /\ ~cancelled /\ captured = << >>
    /\ \E k \in DOMAIN pushed : pushed[k].by[1] = "call"

(* ------------------------- fire-and-forget calls ---------------------- *)

\* C29: a fire-and-forget stub call on a connection whose scope is not
\* cancelled returns as soon as its VoidRequest, carrying the encoded
\* arguments and a fresh call-id, is on the write queue: the step that
\* enqueues it is the step that returns, it hands nothing to transport.write
\* and is taken whatever the writer is doing, and no step of the call
\* changes the pending-call table.
C29_VoidCallReturnsOnEnqueue ==
    [][ \A c \in Calls :
          /\ (cpc[c] = "idle" /\ ckind'[c] = "void" /\ ~cancelled) =>
                /\ cpc'[c] = "vallocated" /\ cid'[c] = last_call_id
                /\ UNCHANGED << completions, pushed, wire >>
          /\ (cpc[c] = "vallocated" /\ cpc'[c] # "vallocated") =>
                /\ cpc'[c] = "done" /\ cres'[c] = Returned
                /\ pushed' = pushed \o Tagged(<< Msg(cid[c], "void_request", mVoid, ArgsPayload) >>,
                                               << "call", c, cid[c], "stub" >>)
                /\ write_queue' = Append(write_queue, Msg(cid[c], "void_request", mVoid, ArgsPayload))
                /\ UNCHANGED << completions, wire, writes_active, wpc >>
      ]_vars

\* C29 witness: a fire-and-forget call has returned while its message is
\* still in the queue behind a write in progress, and the table holds the
\* pending awaited call only
C29_Witness_ReturnedBeforeWrite ==
    \E c, d \in Calls :
        /\ ckind[c] = "void" /\ cpc[c] = "done" /\ cres[c] = Returned
        /\ write_queue = << Msg(cid[c], "void_request", mVoid, ArgsPayload) >>
        /\ writes_active = 1 /\ wpc = "writing"
        /\ ckind[d] = "call" /\ cpc[d] = "awaiting"
        /\ DOMAIN completions = { cid[d] }

(* ------------------------------- routing ------------------------------ *)

\* the ids of the server's methods are pairwise distinct, as an interface
\* is required to have them
UniqueIds(methods) ==
    \A i, j \in DOMAIN methods : i # j => get_method_id(methods[i]) # get_method_id(methods[j])

Declares(methods, name) == \E i \in DOMAIN methods : methods[i] = name

\* C30: interface extensibility: the id of a request depends on the name of
\* the method alone, and the server finds the implementation by that id: when
\* the server's interface (whose ids are distinct) declares the method at
\* another position or among other methods, the implementation invoked is
\* the one declared under the name the client called; a name that the server
\* does not declare, and whose id none of its methods has, invokes none.
C30_RoutedByName ==
    route.pc = "dispatched" /\ UniqueIds(route.server) =>
        /\ route.id = fnv_hash(route.method)
        /\ Declares(route.server, route.method) => route.invoked = route.method
        /\ (\A i \in DOMAIN route.server : get_method_id(route.server[i]) # route.id) =>
               route.invoked = NotImplemented

\* C30 witness: the server declares three methods, the client two of them
\* in the opposite order; the client's first method, which is the server's
\* last, was called and the server invoked it
C30_Witness_ReorderedAndExtended ==
    /\ route.pc = "dispatched" /\ UniqueIds(route.server)
    /\ Len(route.client) = 2 /\ Len(route.server) = 3
    /\ route.client[1] = route.server[3] /\ route.client[2] = route.server[1]
    /\ route.method = route.client[1] /\ route.invoked = route.method

(* ----------------------------- awaited calls -------------------------- *)

\* the Request of caller c's awaited call has been enqueued
RequestEnqueued(c) ==
    \E k \in DOMAIN pushed :
        /\ pushed[k].by[1] = "call" /\ pushed[k].by[2] = c
        /\ pushed[k].msg.type = "request"

\* C31: in an awaited call the entry for the allocated call-id is inserted
\* into the pending-call table before the Request is enqueued: the enqueuing
\* step finds the call registered, and from then on the entry is in the
\* table under the id the Request carries until the call is completed, so
\* that no reply can reach the reader while the entry is still missing.
C31_EntryBeforeRequest ==
    [][ \A c \in Calls :
          /\ (~RequestEnqueued(c) /\ RequestEnqueued(c)') =>
                /\ cpc[c] = "registered"
                /\ ncompl[c] = 0 => (cid[c] \in DOMAIN completions /\ completions[cid[c]] = c)
                /\ \E k \in DOMAIN pushed' : pushed'[k].by[2] = c /\ pushed'[k].msg.call_id = cid[c]
          /\ (RequestEnqueued(c)' /\ ncompl'[c] = 0) =>
                (cid'[c] \in DOMAIN completions' /\ completions'[cid'[c]] = c)
      ]_vars

\* C31 witness: a Request went out and its reply, read afterwards, found the
\* entry and completed the call, while another call, registered and
\* enqueued, still waits
C31_Witness_ReplyFoundEntry ==
    \E c, d \in Calls :
        /\ RequestEnqueued(c) /\ cres[c].kind = "value" /\ ncompl[c] = 1
        /\ \E k \in DOMAIN wire : wire[k].call_id = cid[c]
        /\ RequestEnqueued(d) /\ cpc[d] = "awaiting" /\ completions[cid[d]] = d

\* every "invoked" of the history is directly followed by the same
\* message's "returned" or "suspended", and invocations follow the order
\* in which the messages were read
LogOrdered(log) ==
    \A k \in DOMAIN log :
        log[k].ev = "invoked" =>
            /\ k < Len(log) => (log[k + 1].i = log[k].i /\ log[k + 1].ev \in {"returned", "suspended"})
            /\ \A j \in 1..k - 1 : log[j].i <= log[k].i

\* C32: a fire-and-forget implementation runs to completion, and an async
\* handler reaches its first suspension, before the reader reads the next
\* message: no message is read while an implementation invoked by the
\* reader has not handed control back, so implementations are invoked one
\* at a time in the order their messages are received
C32_ExecutedOnReader ==
    [][ /\ Receives => exec.cur = {}
        /\ Cardinality(exec.cur') <= 1
        /\ LogOrdered(exec.log') ]_vars

C32_Witness_TwoVoidInOrder ==
    /\ Len(exec.log) = 4
    /\ exec.log[1] = [i |-> 1, ev |-> "invoked", type |-> "void_request", id |-> mVoid]
    /\ exec.log[2].ev = "returned"
    /\ exec.log[3] = [i |-> 2, ev |-> "invoked", type |-> "void_request", id |-> mVoid]
    /\ exec.log[4].ev = "returned"

\* the writer has captured a failure of transport.write
SendCaptured == \E k \in DOMAIN captured : captured[k].state = "send"

\* C33: when transport.write fails the writer reports the error with phase
\* Send, cancels the scope and exits: the step that ends the failed write
\* captures an error on send, leaves the scope cancelled and the writer
\* ended, and from then on nothing is handed to transport.write, whatever
\* is in the write queue or is pushed on it later
C33_WriterExitsOnFailure ==
    [][ /\ (Len(captured') > Len(captured) /\ captured'[Len(captured')].state = "send") =>
              /\ wpc = "writing" /\ wpc' = "done"
              /\ cancelled' /\ queue_cancelled'
        /\ SendCaptured =>
              /\ wpc' = "done" /\ writes_active' = 0
              /\ wire' = wire
              /\ Len(write_queue') >= Len(write_queue)
      ]_vars

\* C33 witness: the first write failed with a connection reset and the
\* writer has ended; the other caller's request, pushed behind the failed
\* message or after the failure, is still in the queue, and only the failed
\* message was handed to the transport
C33_Witness_QueuedNeverWritten ==
    /\ captured # << >> /\ captured[1] = [hr |-> E_CONNRESET, state |-> "send"]
    /\ wpc = "done" /\ cancelled
    /\ Len(wire) = 1 /\ Len(write_queue) = 1
    /\ \A c \in Calls : cpc[c] \in {"awaiting", "done"}

\* the bytes write puts on the stream for a sequence of messages
RECURSIVE Framed(_)
Framed(ms) ==
    IF ms = << >> THEN << >>
    ELSE HeaderBytes(Head(ms)) \o Head(ms).payload \o Framed(Tail(ms))

\* C34: whatever the messages written and however the byte stream is cut
\* into receive chunks, the messages read returned so far are the first
\* messages written, header and payload, in order, and what is buffered or
\* in flight is exactly the framing of the written messages not yet
\* returned, so that further reads return them too; read fails only with a
\* connection reset, after a receive that returned no bytes
C34_TcpFraming ==
    tcp.pc # "idle" =>
        /\ Len(tcp.got) <= Len(tcp.sent)
        /\ tcp.got = SubSeq(tcp.sent, 1, Len(tcp.got))
        /\ tcp.buf \o tcp.stream \o (IF tcp.wr = None THEN << >> ELSE tcp.wr.payload)
              = Framed(SubSeq(tcp.sent, Len(tcp.got) + 1, Len(tcp.sent)))
        /\ tcp.rd = "failed" <=> tcp.err = E_CONNRESET
        /\ tcp.err \in { 0, E_CONNRESET }

\* C34 witness: two messages were written; one receive chunk carried the
\* end of the first message together with a part of the second one's
\* header, and read has returned the first message with its full payload
C34_Witness_SplitAndCoalesced ==
    /\ tcp.pc = "open" /\ Len(tcp.sent) = 2 /\ tcp.rd = "idle"
    /\ tcp.got = << tcp.sent[1] >>
    /\ tcp.sent[1].call_id = CallIdModulus - 1 /\ Len(tcp.sent[1].payload) = MaxLen
    /\ Len(tcp.buf) \in 1..HeaderSize - 1

\* the call type of a message matches the declared shape of its method
ShapeMatches(type, id) ==
    \/ type = "void_request" /\ IsVoidMethod(id)
    \/ type = "request" /\ ~IsVoidMethod(id)

\* C35: the implementation is invoked only for a message whose call type
\* matches the method's shape. A Request naming a fire-and-forget method
\* is answered (scope not cancelled) with a Response with an empty payload
\* pushed first, and a VoidRequest naming an async method is answered with
\* nothing; in both cases no implementation is invoked.
C35_InvokedOnlyOnMatchingShape ==
    [][ /\ \A k \in DOMAIN exec.log' :
              exec.log'[k].ev = "invoked" => ShapeMatches(exec.log'[k].type, exec.log'[k].id)
        /\ (Receives /\ message'.id \in MethodTable
               /\ ~ShapeMatches(message'.type, message'.id)) =>
              /\ exec' = exec
              /\ hpc'[nreads'] = "done"
              /\ message'.type = "void_request" => pushed' = pushed
              /\ (message'.type = "request" /\ ~cancelled) =>
                    /\ Len(pushed') > Len(pushed)
                    /\ pushed'[Len(pushed) + 1] =
                          [msg |-> Msg(message'.call_id, "response", message'.id, << >>),
                           by  |-> << "handler", nreads', message'.call_id, "request" >>]
      ]_vars

\* C35 witness: a Request naming the fire-and-forget method and a
\* VoidRequest naming the async method have both been handled: an empty
\* Response was pushed for the first, nothing for the second, and no
\* implementation was invoked
C35_Witness_BothMismatchesHandled ==
    /\ nreads = 2 /\ exec.log = << >> /\ ~cancelled
    /\ hpc[1] = "done" /\ hpc[2] = "done"
    /\ message = Msg(0, "void_request", mAsync, ArgsPayload)
    /\ pushed # << >>
    /\ pushed[1].msg = Msg(0, "response", mVoid, << >>)
    /\ \A k \in DOMAIN pushed : pushed[k].by[2] = 1

\* an awaited call issued on the Running connection, not yet completed
InFlight(c) ==
    ckind[c] = "call" /\ cpc[c] \in {"allocated", "registered", "awaiting"}

\* C36: provided stop is eventually called, every awaited call issued on a
\* Running connection eventually completes with a reply, an error or a
\* cancellation, also when it passed its cancellation check just before
\* stop cancelled the scope
C36_AwaitedCallEventuallyCompletes ==
    \A c \in Calls : InFlight(c) ~> (cpc[c] = "done" /\ cres[c] # None)

\* C37: while no handler is installed only the most recently captured
\* error is retained: whatever is recorded is the last capture, a capture
\* made with no handler installed replaces the record, the Abort of stop
\* included, and an installation that finds a record invokes the new
\* handler once, with the most recent capture, and with nothing else
C37_OnlyLatestErrorRetained ==
    [][ /\ last_error' # None => last_error' = captured'[Len(captured')]
        /\ (Len(captured') > Len(captured) /\ error_handler = 0 /\ last_error # None) =>
               /\ last_error' = captured'[Len(captured')]
               /\ UNCHANGED << hook_calls, hook_pending >>
        /\ (ninstalls' = ninstalls + 1 /\ last_error # None) =>
               /\ Len(hook_calls') = Len(hook_calls) + 1
               /\ hook_calls'[Len(hook_calls')] =
                     [hr |-> LastCaptured.hr, state |-> LastCaptured.state, f |-> ninstalls']
               /\ hook_pending' = hook_pending
      ]_vars

\* C37 witness: with no handler installed the reader captured a connection
\* reset and stop then captured its Abort; the handler installed afterwards
\* was invoked once, with the latest capture, and the connection reset
\* reached no handler
C37_Witness_EarlierErrorReplaced ==
    /\ Len(captured) >= 2 /\ captured[1] = [hr |-> E_CONNRESET, state |-> "receive"]
    /\ \E k \in 2..Len(captured) : captured[k] = AbortOnStop
    /\ ninstalls = 1 /\ hook_pending = << >>
    /\ hook_calls = << [hr |-> LastCaptured.hr, state |-> LastCaptured.state, f |-> 1] >>
    /\ LastCaptured # captured[1]

C39_ReaderStaysInRange ==
    (codec.pc \notin {"idle", "written"} /\ codec.from = "truncated") =>
        /\ codec.pc = "failed"
        /\ codec.cursor <= Len(codec.storage)

====
